---- MODULE Spec2Model ----
(***************************************************************************)
(* Content script of the AI form filler (src/src/content.js): the field    *)
(* locator and the context scorer, the analysis that stores the field map, *)
(* and the fill that re-acquires the stored fields; the capture of a       *)
(* submitted form and the embedding service that learns from it           *)
(* (src/src/services/embedding-service.js).                                *)
(*                                                                         *)
(* Text is a sequence of one-character strings, so that trimming,          *)
(* splitting, humanising and substring search are computed and not         *)
(* assumed.  The document is a sequence of nodes in document order, each   *)
(* with the index of its parent (0 for the root).  A CSS selector is given *)
(* to querySelector(All) as the set of the nodes it matches.               *)
(*                                                                         *)
(* The specifications share the definitions:                               *)
(*   SpecScorer  one analysis of single-control documents (the scorer)     *)
(*   Spec        the message handlers readPage and fillForm, the storage   *)
(*               areas and a page that re-renders                          *)
(*   SpecFill    fills of an analysed page that re-renders meanwhile       *)
(*   SpecInput   fills of single fields of every kind                      *)
(*   SpecSubmit  submissions of a form and the embedding requests that     *)
(*               follow (SpecSubmitLive: with the network answering)       *)
(***************************************************************************)
EXTENDS Naturals, Sequences, FiniteSets, TLC

VARIABLES
  dom,        \* the live document
  large,      \* TRUE iff the page's serialized field map has 8000 characters or more
  changes,    \* how many times the page has re-rendered
  fieldMap,   \* analyzeFormFields' result of the last analysis (ordered key/entry pairs)
  resolved,   \* per element that analysis passed to findMeaningfulTitle: the title returned, the key
  analysed,   \* TRUE iff fieldMap and resolved are the analysis of the page dom shows
  sync,       \* chrome.storage.sync, key formFields
  local,      \* chrome.storage.local, key formFields
  aPc,        \* where analyzePage is suspended ("idle": not running)
  aRun,       \* the run of analyzePage in flight: page version read, record to store, savedToSync
  aRuns,      \* the runs of analyzePage that have returned
  fPc,        \* where fillFormsOnPage is suspended ("idle": not running)
  fFields,    \* formFields as fillFormsOnPage read it from storage
  fIdx,       \* the entry of formFields the loop is at
  fSuggestion,\* the suggestion for that entry
  fFinds,     \* the calls of findFieldElement: document, descriptor, result
  fLog,       \* per entry the loop has finished: how it ended
  responses,  \* the responses sent to the popup
  captured,   \* processFormSubmission's result: the form data and the elements it passed on
  ePc,        \* where storeFormEmbeddings is suspended ("idle": not running)
  eCalls,     \* the calls of generateEmbedding of the run in flight, one per field
  eRuns,      \* the runs of storeFormEmbeddings that have returned
  isMonitoringSubmissions, \* content.js' flag of that name
  listeners,  \* how many times the submit and click listeners are registered on the document
  monitorCalls, \* the calls of monitorFormSubmissions so far
  timers,     \* the forms of the pending 500 ms timers of the click listener
  gestures,   \* the clicks of the user so far, each with its target
  procRuns,   \* the runs of processFormSubmission: what started it, the form, whether a message was sent
  unloaded,   \* TRUE iff the page has been left
  channels,   \* the messages the two onMessage listeners have received, each with its acknowledgment
  API_KEY,    \* background.js' variable of that name (0: null)
  storedKey,  \* the API key in chrome.storage.local (0: none)
  embeddingService, \* background.js' singleton (0: null, else the key it was created with)
  geminiService,    \* the same
  fileService,      \* the same
  handlers,   \* the runs of handleKnowledgeSearch, each with where it is suspended
  keyUpdates  \* the runs of handleApiKeyUpdate that await the storage

docVars == <<dom, large, changes>>

memVars == <<fieldMap, resolved, analysed>>

storeVars == <<sync, local>>

analysisVars == <<aPc, aRun, aRuns>>

fillVars == <<fPc, fFields, fIdx, fSuggestion, fFinds, fLog>>

embedVars == <<captured, ePc, eCalls, eRuns>>

monitorVars == <<isMonitoringSubmissions, listeners, monitorCalls, timers, gestures,
                 procRuns, unloaded>>

serviceVars == <<API_KEY, storedKey, embeddingService, geminiService, fileService,
                 handlers, keyUpdates>>

\* the submission monitor, the message channels and the background's services
otherVars == <<monitorVars, channels, serviceVars>>

vars == <<docVars, memVars, storeVars, analysisVars, fillVars, responses, embedVars,
          otherVars>>

----------------------------------------------------------------------------
(* Text *)

Upper == {"A","B","C","D","E","F","G","H","I","J","K","L","M",
          "N","O","P","Q","R","S","T","U","V","W","X","Y","Z"}

Digits == {"0","1","2","3","4","5","6","7","8","9"}

LowerOf ==
  [c \in Upper |->
     CASE c = "A" -> "a" [] c = "B" -> "b" [] c = "C" -> "c" [] c = "D" -> "d"
       [] c = "E" -> "e" [] c = "F" -> "f" [] c = "G" -> "g" [] c = "H" -> "h"
       [] c = "I" -> "i" [] c = "J" -> "j" [] c = "K" -> "k" [] c = "L" -> "l"
       [] c = "M" -> "m" [] c = "N" -> "n" [] c = "O" -> "o" [] c = "P" -> "p"
       [] c = "Q" -> "q" [] c = "R" -> "r" [] c = "S" -> "s" [] c = "T" -> "t"
       [] c = "U" -> "u" [] c = "V" -> "v" [] c = "W" -> "w" [] c = "X" -> "x"
       [] c = "Y" -> "y" [] c = "Z" -> "z"]

\* String.prototype.toLowerCase
ToLowerCase(s) == [i \in 1..Len(s) |-> IF s[i] \in Upper THEN LowerOf[s[i]] ELSE s[i]]

IsSpace(c) == c \in {" ", "\n", "\t"}

RECURSIVE TrimStart(_)
TrimStart(s) == IF s # <<>> /\ IsSpace(Head(s)) THEN TrimStart(Tail(s)) ELSE s

RECURSIVE TrimEnd(_)
TrimEnd(s) ==
  IF s # <<>> /\ IsSpace(s[Len(s)]) THEN TrimEnd(SubSeq(s, 1, Len(s) - 1)) ELSE s

\* String.prototype.trim
Trim(s) == TrimEnd(TrimStart(s))

RECURSIVE Flatten(_)
Flatten(ss) == IF ss = <<>> THEN <<>> ELSE Head(ss) \o Flatten(Tail(ss))

\* Array.prototype.join(' ')
RECURSIVE JoinSpace(_)
JoinSpace(ss) ==
  IF ss = <<>> THEN <<>>
  ELSE IF Len(ss) = 1 THEN Head(ss)
  ELSE Head(ss) \o <<" ">> \o JoinSpace(Tail(ss))

\* String.prototype.split(' ')
RECURSIVE SplitFrom(_, _)
SplitFrom(s, cur) ==
  IF s = <<>> THEN <<cur>>
  ELSE IF Head(s) = " " THEN <<cur>> \o SplitFrom(Tail(s), <<>>)
  ELSE SplitFrom(Tail(s), Append(cur, Head(s)))

SplitSpace(s) == SplitFrom(s, <<>>)

\* String.prototype.includes
Includes(s, t) ==
  \E k \in 0..Len(s) : k + Len(t) <= Len(s) /\ SubSeq(s, k + 1, k + Len(t)) = t

\* /^<prefix>\d+$/.test(s)
PrefixDigits(prefix, s) ==
  /\ Len(s) > Len(prefix)
  /\ SubSeq(s, 1, Len(prefix)) = prefix
  /\ \A i \in (Len(prefix) + 1)..Len(s) : s[i] \in Digits

DigitChar ==
  [n \in 0..9 |->
     CASE n = 0 -> "0" [] n = 1 -> "1" [] n = 2 -> "2" [] n = 3 -> "3"
       [] n = 4 -> "4" [] n = 5 -> "5" [] n = 6 -> "6" [] n = 7 -> "7"
       [] n = 8 -> "8" [] n = 9 -> "9"]

\* Number -> decimal string, as the template literal `${n}` does
RECURSIVE Decimal(_)
Decimal(n) == IF n < 10 THEN <<DigitChar[n]>> ELSE Decimal(n \div 10) \o <<DigitChar[n % 10]>>

\* (a variant that does not split at capitals)
HumanizeNoCamel(s) ==
  Trim(ToLowerCase([i \in 1..Len(s) |-> IF s[i] \in {"_", "-"} THEN " " ELSE s[i]]))

\* name.replace(/([A-Z])/g, ' $1')
SpaceBeforeCapitals(s) ==
  Flatten([i \in 1..Len(s) |-> IF s[i] \in Upper THEN <<" ", s[i]>> ELSE <<s[i]>>])

\* .replace(/[_-]/g, ' ')
SeparatorsToSpaces(s) == [i \in 1..Len(s) |-> IF s[i] \in {"_", "-"} THEN " " ELSE s[i]]

\* name.replace(/([A-Z])/g, ' $1').replace(/[_-]/g, ' ').toLowerCase().trim()
Humanize(s) == Trim(ToLowerCase(SeparatorsToSpaces(SpaceBeforeCapitals(s))))

----------------------------------------------------------------------------
(* The document *)

FieldTags == {"input", "select", "textarea"}

HeadingTags == {"h1", "h2", "h3", "h4", "h5", "h6"}

Idx(d) == [i \in 1..Len(d) |-> i]

IsElement(d, i) == d[i].tag # "#text"

\* Node.parentElement chain, the node itself first
RECURSIVE SelfAndAncestors(_, _)
SelfAndAncestors(d, i) ==
  IF i = 0 THEN <<>> ELSE <<i>> \o SelfAndAncestors(d, d[i].parent)

Ancestors(d, i) == Tail(SelfAndAncestors(d, i))

IsDescendant(d, j, a) == \E k \in 1..Len(Ancestors(d, j)) : Ancestors(d, j)[k] = a

\* root.querySelectorAll(sel): the descendants of root that match, in document order;
\* a selector is given as the set of the nodes it matches
QuerySelectorAll(d, root, matching) ==
  SelectSeq(Idx(d), LAMBDA j : IsElement(d, j) /\ IsDescendant(d, j, root) /\ j \in matching)

\* document.querySelectorAll(sel)
DocQuerySelectorAll(d, matching) ==
  SelectSeq(Idx(d), LAMBDA j : IsElement(d, j) /\ j \in matching)

\* querySelector: the first match or 0 (null)
First(seq) == IF seq = <<>> THEN 0 ELSE Head(seq)

\* element.closest(sel): the element or its nearest ancestor that matches, or 0
Closest(d, i, matching) ==
  First(SelectSeq(SelfAndAncestors(d, i), LAMBDA j : j \in matching))

\* Node.textContent
TextContent(d, i) ==
  IF d[i].tag = "#text" THEN d[i].text
  ELSE Flatten([k \in 1..Len(d) |->
                  IF d[k].tag = "#text" /\ IsDescendant(d, k, i) THEN d[k].text ELSE <<>>])

\* parent.children / parent.childNodes, in order
ChildNodes(d, p) == SelectSeq(Idx(d), LAMBDA j : d[j].parent = p)

\* node.previousSibling chain, nearest first
RECURSIVE Reverse(_)
Reverse(s) == IF s = <<>> THEN <<>> ELSE Append(Reverse(Tail(s)), Head(s))

PreviousSiblings(d, i) ==
  Reverse(SelectSeq(Idx(d), LAMBDA j : d[j].parent = d[i].parent /\ j < i))

PreviousElementSiblings(d, i) ==
  SelectSeq(PreviousSiblings(d, i), LAMBDA j : IsElement(d, j))

\* document.getElementById
GetElementById(d, id) ==
  IF id = <<>> THEN 0
  ELSE First(DocQuerySelectorAll(d, {j \in 1..Len(d) : d[j].id = id}))

\* HTMLInputElement.type and its like: the property, not the attribute
TypeProp(n) ==
  CASE n.tag = "input"    -> IF n.type = "" THEN "text" ELSE n.type
    [] n.tag = "select"   -> "select-one"
    [] n.tag = "textarea" -> "textarea"
    [] OTHER              -> ""

\* element.name, element.placeholder: form controls only
NameProp(n) == IF n.tag \in FieldTags THEN n.name ELSE <<>>

PlaceholderProp(n) == IF n.tag \in {"input", "textarea"} THEN n.placeholder ELSE <<>>

----------------------------------------------------------------------------
(* Context scorer *)

Clue(type, text) == [type |-> type, text |-> text]

\* x?.textContent.trim(), the empty text for a missing element
TrimmedText(d, i) == IF i = 0 THEN <<>> ELSE Trim(TextContent(d, i))

\* a || b on texts and on elements
OrText(a, b) == IF a # <<>> THEN a ELSE b

OrElement(a, b) == IF a # 0 THEN a ELSE b

\* the nodes of a parentElement walk that come before the first one with such a tag
RECURSIVE Before(_, _, _)
Before(d, chain, tags) ==
  IF chain = <<>> \/ d[Head(chain)].tag \in tags THEN <<>>
  ELSE <<Head(chain)>> \o Before(d, Tail(chain), tags)

\* (a variant that looks for an enclosing label only)
GetExplicitLabelEnclosing(d, e) ==
  First(SelectSeq(Ancestors(d, e), LAMBDA j : d[j].tag = "label"))

\* document.querySelector(`label[for="${element.id}"]`) when the element has an id
LabelFor(d, e) ==
  IF d[e].id = <<>> THEN 0
  ELSE First(DocQuerySelectorAll(d, {j \in 1..Len(d) : d[j].tag = "label" /\ d[j].for = d[e].id}))

\* getExplicitLabel: label[for=id], else the nearest ancestor label below the form
GetExplicitLabel(d, e) ==
  OrElement(LabelFor(d, e),
            First(SelectSeq(Before(d, Ancestors(d, e), {"form"}), LAMBDA j : d[j].tag = "label")))

\* the h1..h6 among the preceding siblings of each node of a walk, nearest first
HeadingsBeside(d, walked) ==
  Flatten([k \in 1..Len(walked) |->
             SelectSeq(PreviousElementSiblings(d, walked[k]), LAMBDA j : d[j].tag \in HeadingTags)])

\* Array.prototype.slice(0, n)
Slice(s, n) == SubSeq(s, 1, IF Len(s) < n THEN Len(s) ELSE n)

\* findNearbyHeadings: preceding h1..h6 siblings of the element and of its ancestors
\* below BODY, nearest first; the closest two
FindNearbyHeadings(d, e) ==
  Slice(HeadingsBeside(d, Before(d, SelfAndAncestors(d, e), {"body"})), 2)

\* the non-blank text nodes among the preceding siblings of each node of a walk
TextsBeside(d, walked) ==
  Flatten([k \in 1..Len(walked) |->
             SelectSeq(PreviousSiblings(d, walked[k]),
                       LAMBDA j : d[j].tag = "#text" /\ Trim(d[j].text) # <<>>)])

\* getPrecedingTextNode: the nearest preceding non-blank text node among the siblings
\* of the element and of its ancestors; the walk stops on reaching a FORM
GetPrecedingTextNode(d, e) ==
  TrimmedText(d, First(TextsBeside(d, <<e>> \o Before(d, Ancestors(d, e), {"form"}))))

IsHelpElement(n) ==
  \/ \E k \in 1..Len(n.cls) : n.cls[k] \in {"help-text", "tooltip"}
  \/ n.role = "tooltip"

\* element.parentElement?.querySelector('.help-text, .tooltip, [role="tooltip"]')
HelpElement(d, e) ==
  IF d[e].parent = 0 THEN 0
  ELSE First(QuerySelectorAll(d, d[e].parent, {j \in 1..Len(d) : IsHelpElement(d[j])}))

\* findTooltipText
FindTooltipText(d, e) ==
  OrText(OrText(d[e].dataTooltip, OrText(d[e].ariaDescription, d[e].title)),
         TrimmedText(d, HelpElement(d, e)))

\* getNearbyDescriptiveElements: the element's siblings that are no form controls
\* and have text
GetNearbyDescriptiveElements(d, e) ==
  IF d[e].parent = 0 THEN <<>>
  ELSE SelectSeq(ChildNodes(d, d[e].parent),
                 LAMBDA j : /\ IsElement(d, j)
                            /\ j # e
                            /\ d[j].tag \notin FieldTags
                            /\ Trim(TextContent(d, j)) # <<>>)

\* findContextualInfo builds its result step by step; each step below takes the
\* info built so far

NoInfo ==
  [label |-> <<>>, headings |-> <<>>, ariaLabel |-> <<>>, tooltips |-> <<>>,
   contextClues |-> <<>>]

\* info.contextClues.push({ type, text })
PushClue(info, type, text) ==
  [info EXCEPT !.contextClues = Append(@, Clue(type, text))]

PushClues(info, type, texts) ==
  [info EXCEPT !.contextClues = @ \o [k \in 1..Len(texts) |-> Clue(type, texts[k])]]

\* info.label = text; info.contextClues.push({ type, text })
SetLabel(info, type, text) == [PushClue(info, type, text) EXCEPT !.label = text]

\* the non-empty trimmed texts of the elements the ids name
TextsOfIds(d, ids) ==
  SelectSeq([k \in 1..Len(ids) |-> TrimmedText(d, GetElementById(d, ids[k]))],
            LAMBDA t : t # <<>>)

LabelledByTexts(d, e) ==
  IF d[e].labelledBy = <<>> THEN <<>> ELSE TextsOfIds(d, SplitSpace(d[e].labelledBy))

\* 1. aria-labelledby
WithLabelledBy(info, labelTexts) ==
  IF Len(labelTexts) > 0 THEN SetLabel(info, "aria_labelledby", JoinSpace(labelTexts)) ELSE info

\* 2. explicit label
WithExplicitLabel(info, d, labelElement) ==
  IF labelElement # 0 /\ info.label = <<>>
  THEN SetLabel(info, "explicit_label", TrimmedText(d, labelElement))
  ELSE info

\* headingElement.querySelector('.M7eMe')?.textContent.trim() || headingElement.textContent.trim()
HeadingText(d, headingElement) ==
  OrText(TrimmedText(d, First(QuerySelectorAll(d, headingElement,
                     {j \in 1..Len(d) : \E k \in 1..Len(d[j].cls) : d[j].cls[k] = "M7eMe"}))),
         TrimmedText(d, headingElement))

WithHeadingText(info, headingText) ==
  IF headingText # <<>> THEN SetLabel(info, "heading_role", headingText) ELSE info

\* (a variant that looks for the heading role whatever label was found)
WithHeadingRoleAlways(info, d, e) ==
  IF Closest(d, e, {j \in 1..Len(d) : d[j].role = "heading"}) # 0
  THEN WithHeadingText(info,
         HeadingText(d, Closest(d, e, {j \in 1..Len(d) : d[j].role = "heading"})))
  ELSE info

\* 3. heading role
WithHeadingRole(info, d, e) ==
  IF info.label = <<>> /\ Closest(d, e, {j \in 1..Len(d) : d[j].role = "heading"}) # 0
  THEN WithHeadingText(info,
         HeadingText(d, Closest(d, e, {j \in 1..Len(d) : d[j].role = "heading"})))
  ELSE info

\* 4. aria-label, else title
WithAria(info, ariaLabel) ==
  IF ariaLabel # <<>> THEN [PushClue(info, "aria", ariaLabel) EXCEPT !.ariaLabel = ariaLabel]
  ELSE info

\* nearby headings
WithHeadings(info, texts) == [PushClues(info, "heading", texts) EXCEPT !.headings = texts]

TextsOf(d, elements) == [k \in 1..Len(elements) |-> Trim(TextContent(d, elements[k]))]

\* preceding text
WithPrecedingText(info, precedingText) ==
  IF precedingText # <<>> THEN PushClue(info, "preceding_text", precedingText) ELSE info

\* tooltip or help text
WithTooltip(info, tooltip) ==
  IF tooltip # <<>> THEN [PushClue(info, "tooltip", tooltip) EXCEPT !.tooltips = tooltip]
  ELSE info

\* placeholder
WithPlaceholder(info, placeholder) ==
  IF placeholder # <<>> THEN PushClue(info, "placeholder", placeholder) ELSE info

\* findContextualInfo
FindContextualInfo(d, e) ==
  WithPlaceholder(
    PushClues(
      WithTooltip(
        WithPrecedingText(
          WithHeadings(
            WithAria(
              WithHeadingRole(
                WithExplicitLabel(
                  WithLabelledBy(NoInfo, LabelledByTexts(d, e)),
                  d, GetExplicitLabel(d, e)),
                d, e),
              OrText(d[e].ariaLabel, d[e].title)),
            TextsOf(d, FindNearbyHeadings(d, e))),
          GetPrecedingTextNode(d, e)),
        FindTooltipText(d, e)),
      "nearby_element", TextsOf(d, GetNearbyDescriptiveElements(d, e))),
    PlaceholderProp(d[e]))

\* a resolved title; confidence in hundredths
Title(text, source, confidence) ==
  [text |-> text, source |-> source, confidence |-> confidence]

\* findMeaningfulTitle's null
NoTitle == Title(<<>>, "null", 0)

\* contextClues.find(clue => the clue has one of the types), as a list of at most one
FindClue(clues, types) == Slice(SelectSeq(clues, LAMBDA c : c.type \in types), 1)

\* The rules of findMeaningfulTitle, each giving its title or NoTitle (the rule
\* does not apply and the function goes on to the next one).

ClueTitle(found, confidence) ==
  IF found # <<>> THEN Title(found[1].text, found[1].type, confidence) ELSE NoTitle

\* 1. the aria-labelledby clue
ByLabelledBy(info) == ClueTitle(FindClue(info.contextClues, {"aria_labelledby"}), 100)

\* a name or an id as a title: longer than 3 characters, not <generic><digits>, and
\* its formatted form longer than 3 characters
AttributeTitle(value, generic, formatted, source, confidence) ==
  IF Len(value) > 3 /\ ~PrefixDigits(generic, value) /\ Len(formatted) > 3
  THEN Title(formatted, source, confidence) ELSE NoTitle

\* the name attribute
ByName(n) ==
  AttributeTitle(NameProp(n), <<"f","i","e","l","d">>, Humanize(NameProp(n)),
                 "name_attribute", 80)

\* the id attribute
ById(n) ==
  AttributeTitle(n.id, <<"i","n","p","u","t">>, Humanize(n.id), "id_attribute", 70)

\* the placeholder
ByPlaceholder(n) ==
  IF Len(Trim(PlaceholderProp(n))) > 3
  THEN Title(Trim(PlaceholderProp(n)), "placeholder", 75) ELSE NoTitle

\* 2. the heading-role clue
ByHeadingRole(info) == ClueTitle(FindClue(info.contextClues, {"heading_role"}), 95)

\* 3. the explicit label
ByLabel(info) ==
  IF info.label # <<>> THEN Title(info.label, "explicit_label", 90) ELSE NoTitle

\* 4. the ARIA label
ByAriaLabel(info) ==
  IF info.ariaLabel # <<>> THEN Title(info.ariaLabel, "aria_label", 85) ELSE NoTitle

RelevantTitle(found) ==
  ClueTitle(found, IF found # <<>> /\ found[1].type = "preceding_text" THEN 80 ELSE 70)

\* (a variant that prefers a nearby_element clue to a tooltip clue)
ByRelevantClueNearbyFirst(info) ==
  RelevantTitle(Slice(FindClue(info.contextClues, {"preceding_text"})
                      \o FindClue(info.contextClues, {"nearby_element"})
                      \o FindClue(info.contextClues, {"tooltip"}), 1))

\* the first preceding_text, nearby_element or tooltip clue of the list
ByRelevantClue(info) ==
  RelevantTitle(FindClue(info.contextClues, {"preceding_text", "nearby_element", "tooltip"}))

\* (a variant that passes over a nearby heading without text)
ByNearbyHeadingWithText(info) ==
  IF info.headings # <<>> /\ Head(info.headings) # <<>>
  THEN Title(Head(info.headings), "nearby_heading", 60)
  ELSE NoTitle

\* the first nearby heading
ByNearbyHeading(info) ==
  IF info.headings # <<>> THEN Title(Head(info.headings), "nearby_heading", 60)
  ELSE NoTitle

HeadOr(s, default) == IF s = <<>> THEN default ELSE Head(s)

\* the first rule that returns
FirstTitle(titles) == HeadOr(SelectSeq(titles, LAMBDA t : t # NoTitle), NoTitle)

\* (a variant that tries the name before the aria-labelledby clue)
FindMeaningfulTitleNameFirst(info, n) ==
  FirstTitle(<<ByName(n), ByLabelledBy(info), ById(n), ByPlaceholder(n),
               ByHeadingRole(info), ByLabel(info), ByAriaLabel(info),
               ByRelevantClue(info), ByNearbyHeading(info)>>)

\* (a variant that takes any id, however short, as a title)
FindMeaningfulTitleAnyId(info, n) ==
  FirstTitle(<<ByLabelledBy(info), ByName(n),
               IF n.id # <<>> THEN Title(Humanize(n.id), "id_attribute", 70) ELSE NoTitle,
               ByPlaceholder(n), ByHeadingRole(info), ByLabel(info),
               ByAriaLabel(info), ByRelevantClue(info), ByNearbyHeading(info)>>)

\* (a variant that tries the ARIA label before the explicit label)
FindMeaningfulTitleAriaFirst(info, n) ==
  FirstTitle(<<ByLabelledBy(info), ByName(n), ById(n), ByPlaceholder(n),
               ByHeadingRole(info), ByAriaLabel(info), ByLabel(info),
               ByRelevantClue(info), ByNearbyHeading(info)>>)

\* findMeaningfulTitle(contextualInfo, element): the chain of early returns
FindMeaningfulTitle(info, n) ==
  FirstTitle(<<ByLabelledBy(info), ByName(n), ById(n), ByPlaceholder(n),
               ByHeadingRole(info), ByLabel(info), ByAriaLabel(info),
               ByRelevantClue(info), ByNearbyHeading(info)>>)

----------------------------------------------------------------------------
(* Field locator: discovery *)

IsControl(n) == n.tag \in FieldTags

\* the selector 'input, select, textarea, [contenteditable="true"]'
IsInteractive(n) == n.tag \in FieldTags \/ n.contentEditable = "true"

\* findForms: every form, then every div/section holding two or more controls
FindForms(d) ==
  DocQuerySelectorAll(d, {j \in 1..Len(d) : d[j].tag = "form"})
  \o DocQuerySelectorAll(d, {j \in 1..Len(d) :
        /\ d[j].tag \in {"div", "section"}
        /\ Len(QuerySelectorAll(d, j, {k \in 1..Len(d) : IsControl(d[k])})) >= 2})

SkipTypes == {"hidden", "submit", "button", "reset", "image"}

\* (a variant that skips the button-like types only)
ShouldSkipElementButtons(d, e) ==
  \/ TypeProp(d[e]) \in {"submit", "button", "reset", "image"}
  \/ d[e].display = "none"
  \/ d[e].visibility = "hidden"
  \/ d[e].hidden
  \/ Closest(d, e, {j \in 1..Len(d) : d[j].ariaHidden = "true"}) # 0

\* (a variant that looks for aria-hidden above the element only)
ShouldSkipElementAbove(d, e) ==
  \/ TypeProp(d[e]) \in SkipTypes
  \/ d[e].display = "none"
  \/ d[e].visibility = "hidden"
  \/ d[e].hidden
  \/ \E a \in 1..Len(d) : IsDescendant(d, e, a) /\ d[a].ariaHidden = "true"

\* shouldSkipElement
ShouldSkipElement(d, e) ==
  \/ TypeProp(d[e]) \in SkipTypes
  \/ d[e].display = "none"
  \/ d[e].visibility = "hidden"
  \/ d[e].hidden
  \/ Closest(d, e, {j \in 1..Len(d) : d[j].ariaHidden = "true"}) # 0

\* one compound selector of a generated path: tag, '#id' when id is set,
\* ':nth-of-type(nth)' when nth > 1
Segment(tag, id, nth) == [tag |-> tag, id |-> id, nth |-> nth]

NthOfType(d, i) ==
  1 + Len(SelectSeq(PreviousElementSiblings(d, i), LAMBDA j : d[j].tag = d[i].tag))

\* generateCssPath: the chain of segments from the nearest ancestor-or-self with an
\* id (or from the root) down to the element, joined by ' > '
RECURSIVE GenerateCssPath(_, _)
GenerateCssPath(d, e) ==
  IF e = 0 THEN <<>>
  ELSE IF d[e].id # <<>> THEN <<Segment(d[e].tag, d[e].id, 1)>>
  ELSE Append(GenerateCssPath(d, d[e].parent), Segment(d[e].tag, <<>>, NthOfType(d, e)))

\* extractFieldInfo
ExtractFieldInfo(d, e) ==
  [type           |-> IF TypeProp(d[e]) # "" THEN TypeProp(d[e]) ELSE d[e].tag,
   name           |-> NameProp(d[e]),
   id             |-> d[e].id,
   className      |-> d[e].cls,
   placeholder    |-> PlaceholderProp(d[e]),
   required       |-> d[e].required,
   contextualInfo |-> FindContextualInfo(d, e),
   \* getRelevantAttributes: of those read later, 'aria-labelledby' starts with
   \* 'aria-label' and is kept, 'jsname' and 'data-testid' are not
   attributes     |-> [ariaLabelledBy |-> d[e].labelledBy, ariaLabel |-> d[e].ariaLabel]]

\* an ordered object: key/value pairs in insertion order
KeysOf(obj) == [k \in 1..Len(obj) |-> obj[k].key]

HasKey(obj, key) == \E k \in 1..Len(obj) : obj[k].key = key

\* (a variant that keeps the entry a key already has)
PutIfAbsent(obj, key, value) ==
  IF HasKey(obj, key) THEN obj ELSE Append(obj, [key |-> key, value |-> value])

\* obj[key] = value
Put(obj, key, value) ==
  IF HasKey(obj, key)
  THEN [k \in 1..Len(obj) |-> IF obj[k].key = key THEN [key |-> key, value |-> value] ELSE obj[k]]
  ELSE Append(obj, [key |-> key, value |-> value])

FieldPrefix == <<"f","i","e","l","d","_">>

\* (a variant whose positional key does not count the entries)
FieldKeyUncounted(fieldInfo, fields) ==
  OrText(fieldInfo.id, OrText(fieldInfo.name, FieldPrefix \o Decimal(0)))

\* fieldInfo.id || fieldInfo.name || `field_${Object.keys(fields).length}`
FieldKey(fieldInfo, fields) ==
  OrText(fieldInfo.id, OrText(fieldInfo.name, FieldPrefix \o Decimal(Len(fields))))

\* the selectors analyzeFormFields records for an element
Selectors(d, e) ==
  [id             |-> d[e].id,
   name           |-> NameProp(d[e]),
   className      |-> d[e].cls,
   tagName        |-> d[e].tag,
   type           |-> TypeProp(d[e]),
   ariaLabelledBy |-> d[e].labelledBy,
   cssPath        |-> GenerateCssPath(d, e)]

\* acc.log records, per element that reaches findMeaningfulTitle, the title returned
\* and the key the element has or would have had
Seen(acc, e, meaningfulTitle, fieldKey) ==
  Append(acc.log, [element |-> e, title |-> meaningfulTitle, key |-> fieldKey])

\* (a variant that stores the field whether or not it has a title)
IdentifyUntitled(d, acc, e, fieldInfo, meaningfulTitle) ==
  [fields |-> Put(acc.fields, FieldKey(fieldInfo, acc.fields),
                  [info |-> fieldInfo, title |-> meaningfulTitle,
                   selectors |-> Selectors(d, e), element |-> e]),
   log    |-> Seen(acc, e, meaningfulTitle, FieldKey(fieldInfo, acc.fields))]

\* if (meaningfulTitle) { fields[fieldKey] = {...fieldInfo, title, selectors} }
Identify(d, acc, e, fieldInfo, meaningfulTitle) ==
  IF meaningfulTitle # NoTitle
  THEN [fields |-> Put(acc.fields, FieldKey(fieldInfo, acc.fields),
                       [info |-> fieldInfo, title |-> meaningfulTitle,
                        selectors |-> Selectors(d, e), element |-> e]),
        log    |-> Seen(acc, e, meaningfulTitle, FieldKey(fieldInfo, acc.fields))]
  ELSE [fields |-> acc.fields,
        log    |-> Seen(acc, e, meaningfulTitle, FieldKey(fieldInfo, acc.fields))]

AnalyzeField(d, acc, e, fieldInfo) ==
  Identify(d, acc, e, fieldInfo, FindMeaningfulTitle(fieldInfo.contextualInfo, d[e]))

\* the body of analyzeFormFields' inner loop for one element; acc.fields is the
\* object being built
AnalyzeElement(d, acc, e) ==
  IF ShouldSkipElement(d, e) THEN acc ELSE AnalyzeField(d, acc, e, ExtractFieldInfo(d, e))

RECURSIVE AnalyzeElements(_, _, _)
AnalyzeElements(d, acc, elements) ==
  IF elements = <<>> THEN acc
  ELSE AnalyzeElements(d, AnalyzeElement(d, acc, Head(elements)), Tail(elements))

\* the elements of every container, in the order the two loops visit them
ElementsOf(d, forms) ==
  Flatten([f \in 1..Len(forms) |->
             QuerySelectorAll(d, forms[f], {j \in 1..Len(d) : IsInteractive(d[j])})])

\* (a variant whose field map starts from the map of the previous analysis)
AnalyzeFormFieldsCarried(d, forms) ==
  AnalyzeElements(d, [fields |-> fieldMap, log |-> <<>>], ElementsOf(d, forms))

\* analyzeFormFields(forms): every interactive element of every container, in order
AnalyzeFormFields(d, forms) ==
  AnalyzeElements(d, [fields |-> <<>>, log |-> <<>>], ElementsOf(d, forms))

----------------------------------------------------------------------------
(* Documents: texts and attribute values that occur in them *)

T_First == <<"F","i","r","s","t">>

T_Name == <<"N","a","m","e">>

T_Blank == <<" ">>

T_EmailAddress == <<"E","m","a","i","l"," ","A","d","d","r","e","s","s">>

T_Your == <<"Y","o","u","r">>

T_Help == <<"H","e","l","p">>

T_Contact == <<"C","o","n","t","a","c","t">>

T_Phone == <<"P","h","o","n","e">>

T_Hint == <<"H","i","n","t">>

T_Topic == <<"T","o","p","i","c">>

T_Tip == <<"T","i","p">>

T_Question == <<"Q","u","e","s","t","i","o","n">>

A_t1 == <<"t","1">>

A_l1 == <<"l","1">>

A_l2 == <<"l","2">>

A_l3 == <<"l","3">>

A_l1l2 == <<"l","1"," ","l","2">>

A_l3l1 == <<"l","3"," ","l","1">>

A_zz == <<"z","z">>

A_l3zz == <<"l","3"," ","z","z">>

A_firstName == <<"f","i","r","s","t","N","a","m","e">>

A_phoneNumber == <<"p","h","o","n","e","N","u","m","b","e","r">>

A_field1 == <<"f","i","e","l","d","1">>

A_field12 == <<"f","i","e","l","d","1","2">>

A_abc_ == <<"a","b","c","_">>

A_a_b == <<"a","_","_","b">>

A_user_name == <<"u","s","e","r","-","n","a","m","e">>

A_q1 == <<"q","1">>

A_ID == <<"I","D","_","_">>

A_e1 == <<"e","1">>

A_userEmail == <<"u","s","e","r","E","m","a","i","l">>

A_input1 == <<"i","n","p","u","t","1">>

A_field_0 == <<"f","i","e","l","d","_","0">>

A_field_1 == <<"f","i","e","l","d","_","1">>

A_x_y_ == <<"x","-","y","-">>

P_abc == <<"a","b","c"," ">>

P_YourEmail == <<" ","Y","o","u","r"," ","e","m","a","i","l">>

P_ab == <<"a","b">>

\* a node with every attribute absent
Node(tag, parent) ==
  [tag |-> tag, parent |-> parent, id |-> <<>>, name |-> <<>>, type |-> "",
   cls |-> <<>>, placeholder |-> <<>>, for |-> <<>>, role |-> "",
   labelledBy |-> <<>>, ariaLabel |-> <<>>, title |-> <<>>, dataTooltip |-> <<>>,
   ariaDescription |-> <<>>, display |-> "", visibility |-> "", hidden |-> FALSE,
   ariaHidden |-> "", contentEditable |-> "", required |-> FALSE, text |-> <<>>,
   options |-> {}, value |-> <<>>, checked |-> FALSE]

TextNode(parent, text) == [Node("#text", parent) EXCEPT !.text = text]

\* a control as a document describes it
Control ==
  [tag |-> "input", type |-> "", id |-> <<>>, name |-> <<>>, cls |-> <<>>,
   placeholder |-> <<>>, labelledBy |-> <<>>, ariaLabel |-> <<>>, title |-> <<>>,
   dataTooltip |-> <<>>, skip |-> "", wrap |-> "none", labelFor |-> "none",
   pretext |-> FALSE, help |-> FALSE, options |-> {}]

ControlNode(c, parent) ==
  [Node(IF c.tag = "editable" THEN "div" ELSE c.tag, parent) EXCEPT
     !.type = c.type, !.id = c.id, !.name = c.name, !.cls = c.cls,
     !.placeholder = c.placeholder, !.labelledBy = c.labelledBy,
     !.ariaLabel = c.ariaLabel, !.title = c.title, !.dataTooltip = c.dataTooltip,
     !.options = c.options,
     !.contentEditable = IF c.tag = "editable" THEN "true" ELSE "",
     !.display = IF c.skip = "display" THEN "none" ELSE "",
     !.visibility = IF c.skip = "visibility" THEN "hidden" ELSE "",
     !.hidden = (c.skip = "hidden"),
     !.ariaHidden = IF c.skip = "ariaHidden" THEN "true" ELSE ""]

\* a text as the only child of the last node of ns
AppendText(ns, text) == Append(ns, TextNode(Len(ns), text))

AddPretext(ns, p, c) == IF c.pretext THEN Append(ns, TextNode(p, T_Your)) ELSE ns

AddLabelFor(ns, p, c) ==
  IF c.labelFor = "none" THEN ns
  ELSE AppendText(Append(ns, [Node("label", p) EXCEPT !.for = c.id]),
                  IF c.labelFor = "text" THEN T_EmailAddress ELSE T_Blank)

Wrapper(p, c) ==
  [Node(IF c.wrap \in {"label", "labelEmpty"} THEN "label" ELSE "div", p) EXCEPT
     !.role = IF c.wrap \in {"heading", "headingEmpty", "headingInner"} THEN "heading" ELSE "",
     !.ariaHidden = IF c.wrap = "ariaHidden" THEN "true" ELSE "",
     !.cls = IF c.wrap \in {"item", "itemLabel"} THEN <<"freebirdFormviewerViewItemsItemItem">> ELSE <<>>]

\* the text a wrapper starts with; the wrapper is the last node of ns
AddWrapText(ns, c) ==
  CASE c.wrap \in {"label", "heading", "item"} -> AppendText(ns, T_Topic)
    [] c.wrap = "headingInner" ->
         AppendText(Append(ns, [Node("span", Len(ns)) EXCEPT !.cls = <<"M7eMe">>]), T_Topic)
    [] c.wrap = "itemLabel" ->
         AppendText(Append(ns, [Node("span", Len(ns)) EXCEPT !.id = A_t1]), T_Question)
    [] c.wrap \in {"labelEmpty", "headingEmpty"} -> AppendText(ns, T_Blank)
    [] OTHER -> ns

AddHelp(ns, w, c) ==
  IF c.help THEN AppendText(Append(ns, [Node("span", w) EXCEPT !.cls = <<"help-text">>]), T_Help)
  ELSE ns

\* the control and what surrounds it inside its parent w
AddInside(ns, w, c) ==
  AddHelp(Append(IF c.wrap = "none" THEN ns ELSE AddWrapText(ns, c), ControlNode(c, w)), w, c)

AddWrapped(ns, p, c) ==
  IF c.wrap = "none" THEN AddInside(ns, p, c)
  ELSE AddInside(Append(ns, Wrapper(p, c)), Len(ns) + 1, c)

\* the nodes of one control and its surroundings, appended to ns under container p:
\*   [text] [label for=id] [wrapper >] [text|span] control [span.help-text]
AddControl(ns, p, c) == AddWrapped(AddLabelFor(AddPretext(ns, p, c), p, c), p, c)

RECURSIVE AddControls(_, _, _)
AddControls(ns, p, cs) ==
  IF cs = <<>> THEN ns ELSE AddControls(AddControl(ns, p, Head(cs)), p, Tail(cs))

\* html > body > div(span#l1 span#l2 span#l3)
PageTop ==
  <<Node("html", 0), Node("body", 1), Node("div", 2),
    [Node("span", 3) EXCEPT !.id = A_l1], TextNode(4, T_First),
    [Node("span", 3) EXCEPT !.id = A_l2], TextNode(6, T_Name),
    [Node("span", 3) EXCEPT !.id = A_l3], TextNode(8, T_Blank)>>

AddOuter(ns, outer) == IF outer THEN Append(ns, Node("div", 2)) ELSE ns

AddContainer(ns, outer, cont) == Append(ns, Node(cont, IF outer THEN Len(ns) ELSE 2))

AddHeading(ns, heading) ==
  IF heading = "none" THEN ns
  ELSE AppendText(Append(ns, Node("h2", Len(ns))),
                  IF heading = "text" THEN T_Contact ELSE T_Blank)

\* the contents of the container, which is the last node of ns
AddContents(ns, heading, controls) == AddControls(AddHeading(ns, heading), Len(ns), controls)

\* a page: html > body > div(span#l1 span#l2 span#l3) [div >] container > [h2] controls
Page(outer, cont, heading, controls) ==
  AddContents(AddContainer(AddOuter(PageTop, outer), outer, cont), heading, controls)

----------------------------------------------------------------------------
(* The scorer on single controls: every page holds the control under study *)
(* and a hidden input beside it                                           *)

LabelledBys == {<<>>, A_l1l2, A_l3, A_zz, A_l3l1}

Names == {<<>>, A_firstName, A_phoneNumber, A_field1, A_abc_, A_user_name, A_q1}

Ids == {<<>>, A_e1, A_userEmail, A_input1, A_x_y_}

Placeholders == {<<>>, P_abc, P_YourEmail}

Filler == [Control EXCEPT !.type = "hidden", !.name = A_q1]

\* which of the attribute rules wins
AttributePage(d) ==
  \E lb \in LabelledBys, nm \in Names, id \in Ids, ph \in Placeholders,
     al \in {<<>>, T_Phone}, ti \in {<<>>, T_Tip}, w \in {"none", "label", "heading"} :
    d = Page(FALSE, "form", "none",
             << [Control EXCEPT !.labelledBy = lb, !.name = nm, !.id = id,
                                !.placeholder = ph, !.ariaLabel = al, !.title = ti,
                                !.wrap = w], Filler >>)

\* which of the structural clues wins
StructurePage(d) ==
  \E cont \in {"form", "div"}, h \in {"none", "text", "empty"},
     w \in {"none", "label", "labelEmpty", "heading", "headingEmpty", "headingInner",
            "ariaHidden", "div"},
     lf \in {"none", "text", "empty"}, pt \in BOOLEAN, hp \in BOOLEAN,
     dt \in {<<>>, T_Hint}, al \in {<<>>, T_Phone}, ph \in {<<>>, P_ab} :
    d = Page(FALSE, cont, h,
             << [Control EXCEPT !.id = A_e1, !.type = "email", !.wrap = w,
                                !.labelFor = lf, !.pretext = pt, !.help = hp,
                                !.dataTooltip = dt, !.ariaLabel = al,
                                !.placeholder = ph], Filler >>)

\* tag and type attribute of the controls
Kinds ==
  {<<"input", ty>> : ty \in {"", "text", "email", "tel", "checkbox", "hidden", "submit",
                             "button", "reset", "image"}}
  \cup {<<"select", "">>, <<"textarea", "">>, <<"editable", "">>}

\* which controls are skipped
ExclusionPage(d) ==
  \E outer \in BOOLEAN, cont \in {"form", "section"}, kind \in Kinds,
     sk \in {"", "display", "visibility", "hidden", "ariaHidden"},
     w \in {"none", "ariaHidden", "label"}, nm \in {<<>>, A_firstName} :
    d = Page(outer, cont, "none",
             << [Control EXCEPT !.tag = kind[1], !.type = kind[2], !.skip = sk,
                                !.wrap = w, !.name = nm], Filler >>)

\* two fields of one form and the keys they get: a shared name, an id that looks
\* like a positional key, or neither id nor name
KeyControls ==
  {[Control EXCEPT !.name = A_firstName], [Control EXCEPT !.name = A_userEmail],
   [Control EXCEPT !.id = A_field_0], [Control EXCEPT !.id = A_field_1],
   [Control EXCEPT !.placeholder = P_YourEmail]}

KeyPage(d) ==
  \E c1 \in KeyControls, c2 \in KeyControls : d = Page(FALSE, "form", "none", <<c1, c2>>)

----------------------------------------------------------------------------
(* The working indicator, which the message handlers add to the document *)

IndicatorId == <<"a","i","-","f","o","r","m","-","f","i","l","l","e","r","-",
                 "i","n","d","i","c","a","t","o","r">>

M_Analyzing == <<"A","n","a","l","y","z","i","n","g"," ","p","a","g","e",".",".",".">>

M_Filling == <<"F","i","l","l","i","n","g"," ","f","o","r","m","s",".",".",".">>

M_Keyframes == <<"@","k","e","y","f","r","a","m","e","s"," ","s","p","i","n">>

Body(d) == First(DocQuerySelectorAll(d, {j \in 1..Len(d) : d[j].tag = "body"}))

\* the position of node p among the kept nodes (0 for no node)
PositionIn(kept, p) == IF p = 0 THEN 0 ELSE CHOOSE i \in 1..Len(kept) : kept[i] = p

\* the document made of the kept nodes
Renumbered(d, kept) ==
  [i \in 1..Len(kept) |-> [d[kept[i]] EXCEPT !.parent = PositionIn(kept, @)]]

\* element.remove()
Remove(d, r) ==
  Renumbered(d, SelectSeq(Idx(d), LAMBDA k : k # r /\ ~IsDescendant(d, k, r)))

\* hideWorkingIndicator
HideWorkingIndicator(d) ==
  IF GetElementById(d, IndicatorId) = 0 THEN d ELSE Remove(d, GetElementById(d, IndicatorId))

\* document.body.appendChild(indicator): div#ai-form-filler-indicator >
\*   div > (div, message), style > text
AppendIndicator(d, message) ==
  d \o << [Node("div", Body(d)) EXCEPT !.id = IndicatorId],
          [Node("div", Len(d) + 1) EXCEPT !.display = "flex"],
          Node("div", Len(d) + 2),
          TextNode(Len(d) + 2, message),
          Node("style", Len(d) + 1),
          TextNode(Len(d) + 5, M_Keyframes) >>

\* showWorkingIndicator(message)
ShowWorkingIndicator(d, message) == AppendIndicator(HideWorkingIndicator(d), message)

\* the page re-renders: its own nodes are replaced, the indicator, if shown, stays
Rerendered(d, page) ==
  IF GetElementById(d, IndicatorId) = 0 THEN page
  ELSE AppendIndicator(page, d[GetElementById(d, IndicatorId) + 3].text)

----------------------------------------------------------------------------
(* analyzePage: the cache is cleared, the page analysed, the field map stored *)

MaxAnalyses == 2

MaxFills == 1

MaxDomChanges == 1

\* a storage area without the key formFields, and with it
NoRecord == [present |-> FALSE, fields |-> <<>>]

\* (a variant that keeps only the first entry of the record)
StoredInPart(fields) == [present |-> TRUE, fields |-> Slice(fields, 1)]

Stored(fields) == [present |-> TRUE, fields |-> fields]

NoRun == [version |-> 0, record |-> <<>>, triedSync |-> FALSE, savedToSync |-> FALSE]

\* the selectors analyzePage stores for a field
ElementSelectors(field) ==
  [id             |-> field.info.id,
   name           |-> field.info.name,
   className      |-> field.info.className,
   tagName        |-> IF field.info.type = "textarea" THEN "textarea" ELSE "input",
   type           |-> field.info.type,
   ariaLabelledBy |-> field.info.attributes.ariaLabelledBy,
   ariaLabel      |-> field.info.attributes.ariaLabel,
   cssPath        |-> field.selectors.cssPath]

\* (a variant that keeps the placeholder in the stored descriptor)
CompressFieldWithPlaceholder(field) ==
  [type           |-> field.info.type,
   name           |-> field.info.name,
   id             |-> field.info.id,
   placeholder    |-> field.info.placeholder,
   required       |-> field.info.required,
   title          |-> field.title,
   selectors      |-> ElementSelectors(field),
   contextualInfo |->
     [label        |-> field.info.contextualInfo.label,
      ariaLabel    |-> field.info.contextualInfo.ariaLabel,
      headings     |-> Slice(field.info.contextualInfo.headings, 1),
      contextClues |-> Slice(SelectSeq(field.info.contextualInfo.contextClues,
                                       LAMBDA c : c.type \in {"explicit_label", "aria"}), 2)],
   element        |-> field.element]

\* compressedFields[key] of analyzePage; element is the node the entry was made from
CompressField(field) ==
  [type           |-> field.info.type,
   name           |-> field.info.name,
   id             |-> field.info.id,
   required       |-> field.info.required,
   title          |-> field.title,
   selectors      |-> ElementSelectors(field),
   contextualInfo |->
     [label        |-> field.info.contextualInfo.label,
      ariaLabel    |-> field.info.contextualInfo.ariaLabel,
      headings     |-> Slice(field.info.contextualInfo.headings, 1),
      contextClues |-> Slice(SelectSeq(field.info.contextualInfo.contextClues,
                                       LAMBDA c : c.type \in {"explicit_label", "aria"}), 2)],
   element        |-> field.element]

\* the loop over Object.entries(formFields)
Compress(fields) ==
  [k \in 1..Len(fields) |-> [key |-> fields[k].key, value |-> CompressField(fields[k].value)]]

\* JSON.stringify(compressedFields).length < 8000; the texts of the model stand for
\* texts of any length, and large says on which side of the limit the page's record is
FitsSync(record) == ~large

JsString(s) == [type |-> "string", str |-> s, bool |-> FALSE]

JsTrue == [type |-> "boolean", str |-> <<>>, bool |-> TRUE]

NoSuggestion == [value |-> JsString(<<>>), confidence |-> 0, source |-> "none"]

\* nothing has been submitted
Unsubmitted ==
  /\ captured = [fields |-> <<>>, log |-> <<>>]
  /\ ePc = "idle"
  /\ eCalls = <<>>
  /\ eRuns = <<>>

\* the submission monitor is not started, no message has been received by the
\* listeners and the background has neither a key nor services
Dormant ==
  /\ isMonitoringSubmissions = FALSE
  /\ listeners = 0
  /\ monitorCalls = 0
  /\ timers = <<>>
  /\ gestures = <<>>
  /\ procRuns = <<>>
  /\ unloaded = FALSE
  /\ channels = <<>>
  /\ API_KEY = 0
  /\ storedKey = 0
  /\ embeddingService = 0
  /\ geminiService = 0
  /\ fileService = 0
  /\ handlers = <<>>
  /\ keyUpdates = 0

\* every variable of the message handlers at rest
Quiet ==
  /\ sync = NoRecord /\ local = NoRecord
  /\ aPc = "idle" /\ aRun = NoRun /\ aRuns = <<>>
  /\ fPc = "idle" /\ fFields = <<>> /\ fIdx = 0 /\ fSuggestion = NoSuggestion
  /\ fFinds = <<>> /\ fLog = <<>>
  /\ responses = <<>>
  /\ Unsubmitted
  /\ Dormant

InitScorer ==
  /\ AttributePage(dom) \/ StructurePage(dom) \/ ExclusionPage(dom) \/ KeyPage(dom)
  /\ large = FALSE
  /\ changes = 0
  /\ fieldMap = <<>>
  /\ resolved = <<>>
  /\ analysed = FALSE
  /\ Quiet

\* const formFields = await analyzeFormFields(forms)
SetAnalysis(result) ==
  /\ fieldMap' = result.fields
  /\ resolved' = result.log
  /\ analysed' = TRUE

\* findForms and analyzeFormFields, as analyzePage runs them (content.js:48-55)
RunAnalysis ==
  /\ ~analysed
  /\ SetAnalysis(AnalyzeFormFields(dom, FindForms(dom)))
  /\ UNCHANGED <<otherVars, embedVars, docVars, storeVars, analysisVars, fillVars, responses>>

NextScorer == RunAnalysis

SpecScorer == InitScorer /\ [][NextScorer]_vars

\* case 'readPage' of the message listener, up to analyzePage's first await
ReadPage ==
  /\ aPc = "idle"
  /\ Len(aRuns) < MaxAnalyses
  /\ dom' = ShowWorkingIndicator(dom, M_Analyzing)
  /\ aPc' = "rmSync"
  /\ UNCHANGED <<otherVars, embedVars, large, changes, memVars, storeVars, aRun, aRuns, fillVars, responses>>

\* analyzePage returns: hideWorkingIndicator and sendResponse
AnalyzePageReturns(success, result, run, savedToLocal) ==
  /\ aPc' = "idle"
  /\ aRun' = NoRun
  /\ aRuns' = Append(aRuns, [version      |-> run.version,
                             fields       |-> result.fields,
                             log          |-> result.log,
                             record       |-> run.record,
                             triedSync    |-> run.triedSync,
                             savedToSync  |-> run.savedToSync,
                             savedToLocal |-> savedToLocal,
                             success      |-> success])
  /\ dom' = HideWorkingIndicator(dom)
  /\ responses' = Append(responses, [action |-> "readPage", success |-> success])

\* the record is ready: the first storage write is issued
Save(record) ==
  /\ aRun' = [version |-> changes, record |-> record,
               triedSync |-> FitsSync(record), savedToSync |-> FALSE]
  /\ aPc' = IF FitsSync(record) THEN "setSync" ELSE "setLocal"
  /\ UNCHANGED <<dom, aRuns, responses>>

Analysed(result) ==
  /\ SetAnalysis(result)
  /\ IF Len(result.fields) > 0
     THEN Save(Compress(result.fields))
     ELSE AnalyzePageReturns(FALSE, result, [NoRun EXCEPT !.version = changes], FALSE)

\* analyzePage from findForms to the first storage write (content.js:48-97)
AnalysePage ==
  IF Len(FindForms(dom)) = 0
  THEN /\ UNCHANGED memVars
       /\ AnalyzePageReturns(FALSE, [fields |-> <<>>, log |-> <<>>],
                             [NoRun EXCEPT !.version = changes], FALSE)
  ELSE Analysed(AnalyzeFormFields(dom, FindForms(dom)))

\* chrome.storage.sync.remove settles; if it rejects, the catch block is entered and
\* the local area is not cleared
SyncRemoved ==
  /\ aPc = "rmSync"
  /\ \E ok \in BOOLEAN :
       IF ok
       THEN /\ sync' = NoRecord
            /\ aPc' = "rmLocal"
            /\ UNCHANGED <<otherVars, embedVars, docVars, memVars, local, aRun, aRuns, fillVars, responses>>
       ELSE /\ AnalysePage
            /\ UNCHANGED <<otherVars, embedVars, large, changes, storeVars, fillVars>>

\* chrome.storage.local.remove settles
LocalRemoved ==
  /\ aPc = "rmLocal"
  /\ \E ok \in BOOLEAN :
       /\ local' = IF ok THEN NoRecord ELSE local
       /\ AnalysePage
       /\ UNCHANGED <<otherVars, embedVars, large, changes, sync, fillVars>>

\* chrome.storage.sync.set settles
SyncSet ==
  /\ aPc = "setSync"
  /\ \E ok \in BOOLEAN :
       /\ sync' = IF ok THEN Stored(aRun.record) ELSE sync
       /\ aRun' = [aRun EXCEPT !.savedToSync = ok]
  /\ aPc' = "setLocal"
  /\ UNCHANGED <<otherVars, embedVars, docVars, memVars, local, aRuns, fillVars, responses>>

\* (a variant in which a failed write to the local area fails the analysis)
SavedLocalOnly(savedToSync, savedToLocal) == savedToLocal

\* the value analyzePage returns once the local write has settled: the error of the
\* local write is rethrown only if nothing was saved to the sync area
Saved(savedToSync, savedToLocal) == savedToLocal \/ savedToSync

\* chrome.storage.local.set settles and analyzePage returns
LocalSet ==
  /\ aPc = "setLocal"
  /\ \E ok \in BOOLEAN :
       /\ local' = IF ok THEN Stored(aRun.record) ELSE local
       /\ AnalyzePageReturns(Saved(aRun.savedToSync, ok), [fields |-> fieldMap, log |-> resolved],
                             aRun, ok)
  /\ UNCHANGED <<otherVars, embedVars, large, changes, memVars, sync, fillVars>>

----------------------------------------------------------------------------
(* Field locator: re-acquisition (findFieldElement) *)

Found(element, strategy) == [element |-> element, strategy |-> strategy, threw |-> FALSE]

NotFound == Found(0, "none")

\* querySelector throws a SyntaxError
Threw(strategy) == [element |-> 0, strategy |-> strategy, threw |-> TRUE]

HasClass(n, class) == \E k \in 1..Len(n.cls) : n.cls[k] = class

\* does the element match the compound selector
MatchesSegment(d, j, seg) ==
  /\ d[j].tag = seg.tag
  /\ seg.id # <<>> => d[j].id = seg.id
  /\ seg.nth > 1 => NthOfType(d, j) = seg.nth

\* does the element match path[1] > ... > path[k]
RECURSIVE MatchesChain(_, _, _, _)
MatchesChain(d, j, path, k) ==
  /\ j # 0
  /\ MatchesSegment(d, j, path[k])
  /\ k = 1 \/ MatchesChain(d, d[j].parent, path, k - 1)

\* the elements a generated path selects
MatchingPath(d, path) == {j \in 1..Len(d) : MatchesChain(d, j, path, Len(path))}

\* '#id' is no selector when the id starts with a digit
InvalidSelector(path) == \E k \in 1..Len(path) : path[k].id # <<>> /\ path[k].id[1] \in Digits

\* 1. document.getElementById(selectors.id)
TryId(d, selectors) ==
  IF selectors.id # <<>> THEN Found(GetElementById(d, selectors.id), "id") ELSE NotFound

\* 2. document.querySelector(selectors.cssPath)
TryCssPath(d, selectors) ==
  IF selectors.cssPath = <<>> THEN NotFound
  ELSE IF InvalidSelector(selectors.cssPath) THEN Threw("cssPath")
  ELSE Found(First(DocQuerySelectorAll(d, MatchingPath(d, selectors.cssPath))), "cssPath")

FormItems(d) == {j \in 1..Len(d) : HasClass(d[j], "freebirdFormviewerViewItemsItemItem")}

\* item.querySelector('input, textarea, select'), 0 for no item
ControlIn(d, item) ==
  IF item = 0 THEN 0 ELSE First(QuerySelectorAll(d, item, {j \in 1..Len(d) : IsControl(d[j])}))

\* labelElement.closest('.freebirdFormviewerViewItemsItemItem'), 0 for no label element
ClosestItem(d, labelElement) ==
  IF labelElement = 0 THEN 0 ELSE Closest(d, labelElement, FormItems(d))

\* 3a. Google Forms: the control of the item that holds the first labelling element
TryItemOfLabel(d, selectors) ==
  IF FormItems(d) # {} /\ selectors.ariaLabelledBy # <<>>
  THEN Found(ControlIn(d, ClosestItem(d,
               GetElementById(d, Head(SplitSpace(selectors.ariaLabelledBy))))),
             "item_labelledby")
  ELSE NotFound

ControlsOfItemsWith(d, items, text) ==
  SelectSeq([k \in 1..Len(items) |->
               IF Includes(TextContent(d, items[k]), text) THEN ControlIn(d, items[k]) ELSE 0],
            LAMBDA e : e # 0)

\* 3b. Google Forms: the control of the first item whose text includes the title
TryItemWithText(d, fieldInfo) ==
  IF FormItems(d) # {} /\ fieldInfo.title.text # <<>>
  THEN Found(First(ControlsOfItemsWith(d, DocQuerySelectorAll(d, FormItems(d)),
                                       fieldInfo.title.text)),
             "item_text")
  ELSE NotFound

\* 4. document.querySelector(`[name="${selectors.name}"]`)
TryName(d, selectors) ==
  IF selectors.name # <<>>
  THEN Found(First(DocQuerySelectorAll(d, {j \in 1..Len(d) : d[j].name = selectors.name})),
             "name")
  ELSE NotFound

\* document.querySelector(`.${className}[type="${type}"]`) per class name
FirstOfClasses(d, classNames, type) ==
  SelectSeq([k \in 1..Len(classNames) |->
               IF classNames[k] \notin {"", "ng-pristine", "ng-untouched"}
               THEN First(DocQuerySelectorAll(d,
                      {j \in 1..Len(d) : HasClass(d[j], classNames[k]) /\ d[j].type = type}))
               ELSE 0],
            LAMBDA e : e # 0)

\* 5. class name and type
TryClassAndType(d, selectors) ==
  IF selectors.className # <<>> /\ selectors.type # ""
  THEN Found(First(FirstOfClasses(d, selectors.className, selectors.type)), "class_type")
  ELSE NotFound

\* does the nearest div, form or section around the element hold the text
NearText(d, el, text) ==
  /\ Closest(d, el, {j \in 1..Len(d) : d[j].tag \in {"div", "form", "section"}}) # 0
  /\ Includes(TextContent(d, Closest(d, el, {j \in 1..Len(d) :
                                       d[j].tag \in {"div", "form", "section"}})), text)

\* 6. the first input of the type, textarea or select near the title text
TryTypeAndText(d, fieldInfo) ==
  IF fieldInfo.title.text # <<>>
  THEN Found(First(SelectSeq(
               DocQuerySelectorAll(d, {j \in 1..Len(d) :
                 \/ d[j].tag = "input" /\ d[j].type = fieldInfo.type
                 \/ d[j].tag \in {"textarea", "select"}}),
               LAMBDA el : NearText(d, el, fieldInfo.title.text))),
             "type_text")
  ELSE NotFound

\* fieldInfo.placeholder, which a stored descriptor does not have
PlaceholderOf(fieldInfo) ==
  IF "placeholder" \in DOMAIN fieldInfo THEN fieldInfo.placeholder ELSE <<>>

\* 7. document.querySelector(`[placeholder="${fieldInfo.placeholder}"]`)
TryPlaceholder(d, fieldInfo) ==
  IF PlaceholderOf(fieldInfo) # <<>>
  THEN Found(First(DocQuerySelectorAll(d,
               {j \in 1..Len(d) : d[j].placeholder = PlaceholderOf(fieldInfo)})),
             "placeholder")
  ELSE NotFound

\* the first strategy that returns or throws
FirstFound(results) ==
  HeadOr(SelectSeq(results, LAMBDA r : r.element # 0 \/ r.threw), NotFound)

\* (a variant that tries the generated path before the id)
FindFieldElementPathFirst(d, fieldInfo) ==
  FirstFound(<<TryCssPath(d, fieldInfo.selectors),
               TryId(d, fieldInfo.selectors),
               TryItemOfLabel(d, fieldInfo.selectors),
               TryItemWithText(d, fieldInfo),
               TryName(d, fieldInfo.selectors),
               TryClassAndType(d, fieldInfo.selectors),
               TryTypeAndText(d, fieldInfo),
               TryPlaceholder(d, fieldInfo)>>)

\* (a variant that skips the name strategy)
FindFieldElementNoName(d, fieldInfo) ==
  FirstFound(<<TryId(d, fieldInfo.selectors),
               TryCssPath(d, fieldInfo.selectors),
               TryItemOfLabel(d, fieldInfo.selectors),
               TryItemWithText(d, fieldInfo),
               TryClassAndType(d, fieldInfo.selectors),
               TryTypeAndText(d, fieldInfo),
               TryPlaceholder(d, fieldInfo)>>)

\* findFieldElement
FindFieldElement(d, fieldInfo) ==
  FirstFound(<<TryId(d, fieldInfo.selectors),
               TryCssPath(d, fieldInfo.selectors),
               TryItemOfLabel(d, fieldInfo.selectors),
               TryItemWithText(d, fieldInfo),
               TryName(d, fieldInfo.selectors),
               TryClassAndType(d, fieldInfo.selectors),
               TryTypeAndText(d, fieldInfo),
               TryPlaceholder(d, fieldInfo)>>)

----------------------------------------------------------------------------
(* fillFormsOnPage: the stored field map is read and each field filled *)

V_Field == <<"f","i","e","l","d">>

V_Sample == <<"S","a","m","p","l","e"," ">>

V_Number == <<"4","2">>

V_Email == <<"u","s","e","r","@","e","x","a","m","p","l","e",".","c","o","m">>

V_Tel == <<"+","1","-","5","5","5","-","0","1","2","3">>

V_Url == <<"h","t","t","p","s",":","/","/","e","x","a","m","p","l","e",".","c","o","m">>

V_Date == <<"2","0","2","5","-","0","7","-","2","6">>

V_Answer == <<"J","o","e">>

V_True == <<"t","r","u","e">>

\* (a variant that keeps the title as it is written)
FallbackValueAsWritten(type, fieldTitle) ==
  CASE type = "checkbox" -> JsTrue
    [] type = "number"   -> JsString(V_Number)
    [] type = "email"    -> JsString(V_Email)
    [] type = "tel"      -> JsString(V_Tel)
    [] type = "url"      -> JsString(V_Url)
    [] type = "date"     -> JsString(V_Date)
    [] OTHER             -> JsString(V_Sample \o fieldTitle)

\* the fallback value for a field type and title
FallbackValue(type, fieldTitle) ==
  CASE type = "checkbox" -> JsTrue
    [] type = "number"   -> JsString(V_Number)
    [] type = "email"    -> JsString(V_Email)
    [] type = "tel"      -> JsString(V_Tel)
    [] type = "url"      -> JsString(V_Url)
    [] type = "date"     -> JsString(V_Date)
    [] OTHER             -> JsString(V_Sample \o ToLowerCase(fieldTitle))

\* generateFallbackSuggestion
GenerateFallbackSuggestion(fieldInfo) ==
  [value      |-> FallbackValue(fieldInfo.type, OrText(fieldInfo.title.text, V_Field)),
   confidence |-> 30,
   source     |-> "fallback"]

\* a content of more than a hundred characters
V_Content == [i \in 1..104 |-> IF i % 4 = 0 THEN " " ELSE "a"]

\* a suggestion of the background: a chunk of the knowledge base with the value
\* extracted from it (<<>>: null), or the text Gemini generated
Suggestion(content, extractedValue, similarity, source) ==
  [content |-> content, extractedValue |-> extractedValue, similarity |-> similarity,
   source |-> source]

GeminiSuggestion == Suggestion(V_Answer, V_Answer, 80, "gemini_ai")

ChunkExtracted == Suggestion(V_Content, V_Answer, 72, "knowledge_base")

ChunkWhole == Suggestion(V_Content, <<>>, 0, "")

\* what the callback of the searchKnowledge message gets
Response(success, suggestions) ==
  [lastError |-> FALSE, success |-> success, suggestions |-> suggestions]

RuntimeError == [lastError |-> TRUE, success |-> FALSE, suggestions |-> <<>>]

\* the answers of handleKnowledgeSearch: no API key, nothing found, Gemini's text, or
\* a chunk of the knowledge base; or no answer at all
Replies ==
  {RuntimeError, Response(FALSE, <<>>), Response(TRUE, <<>>),
   Response(TRUE, <<GeminiSuggestion>>), Response(TRUE, <<ChunkExtracted>>)}

\* answers with several chunks, in the order processKnowledgeResults sorted them
ChunkReplies ==
  {Response(TRUE, <<ChunkExtracted, ChunkWhole>>),
   Response(TRUE, <<ChunkWhole, ChunkExtracted>>)}

\* bestMatch.extractedValue || bestMatch.content.substring(0, 100)
ValueOf(bestMatch) == OrText(bestMatch.extractedValue, Slice(bestMatch.content, 100))

\* sourceInfo of a best match
SourceOf(bestMatch) == IF bestMatch.source # "" THEN bestMatch.source ELSE "knowledge_base"

ConfidenceOf(bestMatch) ==
  IF bestMatch.source = "gemini_ai" THEN 85
  ELSE IF bestMatch.similarity # 0 THEN bestMatch.similarity ELSE 50

FromBestMatch(bestMatch) ==
  [value      |-> JsString(ValueOf(bestMatch)),
   confidence |-> ConfidenceOf(bestMatch),
   source     |-> SourceOf(bestMatch)]

\* (a variant that takes the suggestion with the greatest similarity)
BestOfMostSimilar(suggestions) ==
  suggestions[CHOOSE k \in 1..Len(suggestions) :
                \A q \in 1..Len(suggestions) : suggestions[q].similarity <= suggestions[k].similarity]

\* response.suggestions[0]
BestOf(suggestions) == suggestions[1]

\* getIntelligentSuggestion, given what the callback got
GetIntelligentSuggestion(fieldInfo, reply) ==
  IF ~reply.lastError /\ reply.success /\ Len(reply.suggestions) > 0
  THEN FromBestMatch(BestOf(reply.suggestions))
  ELSE GenerateFallbackSuggestion(fieldInfo)

\* String(value), as assigning to element.value does
ToText(value) == IF value.type = "boolean" THEN V_True ELSE value.str

\* the element after simulateHumanInput set its value
Input(n, value) ==
  CASE n.tag = "select" ->
         [n EXCEPT !.value = IF ToText(value) \in n.options THEN ToText(value) ELSE <<>>]
    [] n.tag # "select" /\ TypeProp(n) = "checkbox" ->
         [n EXCEPT !.checked = (value = JsTrue)]
    [] OTHER -> [n EXCEPT !.value = ToText(value)]

\* (a variant that dispatches input, change, blur on every element)
EventsOnAlike(n) == <<"input", "change", "blur">>

\* the events simulateHumanInput dispatches on the element, after focusing it
EventsOn(n) ==
  CASE n.tag = "select" -> <<"change", "change", "blur">>
    [] n.tag # "select" /\ TypeProp(n) = "checkbox" -> <<"change", "change", "blur">>
    [] OTHER -> <<"input", "change", "blur">>

\* simulateHumanInput
SimulateHumanInput(d, e, value) == [d EXCEPT ![e] = Input(d[e], value)]

FillsDone == Len(SelectSeq(responses, LAMBDA r : r.action = "fillForm"))

\* a call of findFieldElement
Call(attempt, field, found) ==
  [fill |-> FillsDone + 1, field |-> fIdx, attempt |-> attempt, doc |-> dom,
   info |-> field.value, result |-> found]

\* how the loop body ended for a field
Ended(field, attempts, outcome, found, suggestion, events) ==
  [fill |-> FillsDone + 1, field |-> fIdx, key |-> field.key, attempts |-> attempts,
   outcome |-> outcome, element |-> found.element, strategy |-> found.strategy,
   value |-> suggestion.value, source |-> suggestion.source, events |-> events]

\* filledCount of the running fill
FilledCount(log) ==
  Len(SelectSeq(log, LAMBDA l : l.fill = FillsDone + 1 /\ l.outcome = "filled"))

\* case 'fillForm' of the message listener, up to fillFormsOnPage's first await;
\* monitorFormSubmissions, which has run when the script loaded, returns at once
FillForm ==
  /\ fPc = "idle"
  /\ FillsDone < MaxFills
  /\ dom' = ShowWorkingIndicator(dom, M_Filling)
  /\ fPc' = "stats"
  /\ UNCHANGED <<otherVars, embedVars, large, changes, memVars, storeVars, analysisVars,
                 fFields, fIdx, fSuggestion, fFinds, fLog, responses>>

\* fillFormsOnPage returns: hideWorkingIndicator and sendResponse; d is the document
\* as the loop left it
FillReturns(success, d) ==
  /\ fPc' = "idle"
  /\ fFields' = <<>>
  /\ fIdx' = 0
  /\ dom' = HideWorkingIndicator(d)
  /\ responses' = Append(responses, [action |-> "fillForm", success |-> success])

\* getKnowledgeBaseStats settles, whether it read the library or not
StatsRead ==
  /\ fPc = "stats"
  /\ fPc' = "getSync"
  /\ UNCHANGED <<otherVars, embedVars, docVars, memVars, storeVars, analysisVars,
                 fFields, fIdx, fSuggestion, fFinds, fLog, responses>>

\* formFields is set: the loop asks for the first suggestion
StartLoop(fields) ==
  /\ fFields' = fields
  /\ fIdx' = 1
  /\ fPc' = "suggest"
  /\ UNCHANGED <<dom, responses>>

\* chrome.storage.sync.get settles
SyncRead ==
  /\ fPc = "getSync"
  /\ \E ok \in BOOLEAN :
       IF ok /\ sync.present
       THEN StartLoop(sync.fields)
       ELSE /\ fPc' = "getLocal"
            /\ UNCHANGED <<dom, fFields, fIdx, responses>>
  /\ UNCHANGED <<otherVars, embedVars, large, changes, memVars, storeVars, analysisVars, fSuggestion, fFinds, fLog>>

\* chrome.storage.local.get settles
LocalRead ==
  /\ fPc = "getLocal"
  /\ \E ok \in BOOLEAN :
       IF ok /\ local.present THEN StartLoop(local.fields) ELSE FillReturns(FALSE, dom)
  /\ UNCHANGED <<otherVars, embedVars, large, changes, memVars, storeVars, analysisVars, fSuggestion, fFinds, fLog>>

\* (a variant in which a field that was not filled ends the loop)
FieldDoneOrAbort(d, entry) ==
  /\ fLog' = Append(fLog, entry)
  /\ fSuggestion' = NoSuggestion
  /\ IF entry.outcome = "filled" /\ fIdx < Len(fFields)
     THEN /\ fIdx' = fIdx + 1
          /\ fPc' = "suggest"
          /\ dom' = d
          /\ UNCHANGED <<fFields, responses>>
     ELSE FillReturns(FilledCount(Append(fLog, entry)) > 0, d)

\* the loop body is over for the field: the next field, or the end of the loop
FieldDone(d, entry) ==
  /\ fLog' = Append(fLog, entry)
  /\ fSuggestion' = NoSuggestion
  /\ IF fIdx < Len(fFields)
     THEN /\ fIdx' = fIdx + 1
          /\ fPc' = "suggest"
          /\ dom' = d
          /\ UNCHANGED <<fFields, responses>>
     ELSE FillReturns(FilledCount(Append(fLog, entry)) > 0, d)

\* fillField after its last findFieldElement: the element is filled, or the error is
\* thrown that the loop catches
Settle(field, suggestion, found, attempts) ==
  IF found.element # 0
  THEN FieldDone(SimulateHumanInput(dom, found.element, suggestion.value),
                 Ended(field, attempts, "filled", found, suggestion,
                       EventsOn(dom[found.element])))
  ELSE FieldDone(dom, Ended(field, attempts, IF found.threw THEN "threw" ELSE "not_found",
                            found, suggestion, <<>>))

\* (a variant that gives up after the first attempt)
NeverWaits(found) == FALSE

\* if (!element): fillField waits and tries again
Waits(found) == found.element = 0 /\ ~found.threw

FirstAttempt(field, suggestion, found) ==
  /\ fFinds' = Append(fFinds, Call(1, field, found))
  /\ IF Waits(found)
     THEN /\ fPc' = "delay"
          /\ fSuggestion' = suggestion
          /\ UNCHANGED <<dom, fFields, fIdx, fLog, responses>>
     ELSE Settle(field, suggestion, found, 1)

\* the background's reply arrives: getIntelligentSuggestion returns and fillField
\* makes its first attempt
SuggestionArrives(replies) ==
  /\ fPc = "suggest"
  /\ \E reply \in replies :
       FirstAttempt(fFields[fIdx], GetIntelligentSuggestion(fFields[fIdx].value, reply),
                    FindFieldElement(dom, fFields[fIdx].value))
  /\ UNCHANGED <<otherVars, embedVars, large, changes, memVars, storeVars, analysisVars>>

Suggested == SuggestionArrives(Replies)

\* the same with a knowledge base that holds several chunks
SuggestedOfChunks == SuggestionArrives(Replies \cup ChunkReplies)

SecondAttempt(field, suggestion, found) ==
  /\ fFinds' = Append(fFinds, Call(2, field, found))
  /\ Settle(field, suggestion, found, 2)

\* the 500 ms are over: fillField makes its second attempt
Delayed ==
  /\ fPc = "delay"
  /\ SecondAttempt(fFields[fIdx], fSuggestion, FindFieldElement(dom, fFields[fIdx].value))
  /\ UNCHANGED <<otherVars, embedVars, large, changes, memVars, storeVars, analysisVars>>

----------------------------------------------------------------------------
(* The capture of a submitted form (content.js) and the embedding service *)
(* that learns from it (services/embedding-service.js)                    *)

MaxSubmissions == 1

M_Processing == <<"P","r","o","c","e","s","s","i","n","g"," ","f","o","r","m"," ",
                  "s","u","b","m","i","s","s","i","o","n",".",".",".">>

\* the value processFormSubmission reads off an element
SubmittedValue(n) ==
  IF TypeProp(n) = "checkbox" THEN [type |-> "boolean", bool |-> n.checked, str |-> <<>>]
  ELSE IF TypeProp(n) = "radio"
       THEN [type |-> "string", bool |-> FALSE, str |-> IF n.checked THEN n.value ELSE <<>>]
       ELSE [type |-> "string", bool |-> FALSE, str |-> n.value]

\* fieldValues[fieldKey] = {...fieldInfo, title, value}
WithValue(d, field) ==
  [key   |-> field.key,
   value |-> [info |-> field.value.info, title |-> field.value.title,
              element |-> field.value.element,
              value |-> SubmittedValue(d[field.value.element])]]

WithValues(d, result) ==
  [fields |-> [k \in 1..Len(result.fields) |-> WithValue(d, result.fields[k])],
   log    |-> result.log]

\* processFormSubmission(form): the loop over the form's elements is the loop of
\* analyzeFormFields (skip, extractFieldInfo, findMeaningfulTitle, key), with the
\* element's value added to each entry
ProcessFormSubmission(d, form) ==
  WithValues(d, AnalyzeElements(d, [fields |-> <<>>, log |-> <<>>],
                                QuerySelectorAll(d, form, {j \in 1..Len(d) : IsInteractive(d[j])})))

\* a call of generateEmbedding whose request has been sent
Fetching(field, retryCount, statuses, waits) ==
  [field |-> field, retryCount |-> retryCount, pc |-> "fetch",
   statuses |-> statuses, waits |-> waits, result |-> "none"]

\* the outcomes of a request: an embedding, a 200 without embedding.values, HTTP 429,
\* another HTTP error, or fetch rejecting
Statuses == {"ok", "invalid", "429", "500", "failed"}

\* (a variant that retries after any failed response)
RetriesOnError(status, retryCount) == status \in {"429", "500"} /\ retryCount < 3

\* response.status === 429 && retryCount < 3
Retries(status, retryCount) == status = "429" /\ retryCount < 3

\* Math.pow(2, retryCount) * 1000
WaitTime(retryCount) == (2 ^ retryCount) * 1000

\* !response.ok
NotOk(status) == status \in {"429", "500"}

\* generateEmbedding after its request has settled with the status
Answered(call, status) ==
  IF NotOk(status) /\ Retries(status, call.retryCount)
  THEN [call EXCEPT !.pc = "wait",
                    !.statuses = Append(@, status),
                    !.waits = Append(@, WaitTime(call.retryCount))]
  ELSE [call EXCEPT !.pc = "returned",
                    !.statuses = Append(@, status),
                    !.result = IF status = "ok" THEN "embedding" ELSE "null"]

\* storeFormEmbeddings returns
StoreReturns(success, stored) ==
  /\ eRuns' = Append(eRuns, [fields  |-> KeysOf(captured.fields),
                             stored  |-> stored,
                             success |-> success])
  /\ ePc' = "idle"
  /\ eCalls' = <<>>

\* the submit listener: processFormSubmission, and the formSubmitted message if any
\* field was captured, up to storeFormEmbeddings' read of the storage
SubmitForm ==
  /\ ePc = "idle"
  /\ Len(eRuns) < MaxSubmissions
  /\ \E form \in {j \in 1..Len(dom) : dom[j].tag = "form"} :
       /\ captured' = ProcessFormSubmission(ShowWorkingIndicator(dom, M_Processing), form)
       /\ ePc' = IF Len(ProcessFormSubmission(ShowWorkingIndicator(dom, M_Processing), form).fields) > 0
                 THEN "get" ELSE "idle"
  /\ dom' = HideWorkingIndicator(ShowWorkingIndicator(dom, M_Processing))
  /\ UNCHANGED <<large, changes, otherVars, memVars, storeVars, analysisVars, fillVars, responses,
                 eCalls, eRuns>>

\* chrome.storage.local.get settles; Object.entries(formData).map starts every
\* field's generateEmbedding, each up to its fetch
EmbeddingsRead ==
  /\ ePc = "get"
  /\ \E ok \in BOOLEAN :
       IF ok
       THEN /\ eCalls' = [k \in 1..Len(captured.fields) |->
                            Fetching(captured.fields[k].key, 0, <<>>, <<>>)]
            /\ ePc' = "embedding"
            /\ UNCHANGED eRuns
       ELSE StoreReturns(FALSE, <<>>)
  /\ UNCHANGED <<docVars, otherVars, memVars, storeVars, analysisVars, fillVars, responses, captured>>

\* the request of one call settles
Responded ==
  /\ ePc = "embedding"
  /\ \E k \in 1..Len(eCalls), status \in Statuses :
       /\ eCalls[k].pc = "fetch"
       /\ eCalls' = [eCalls EXCEPT ![k] = Answered(eCalls[k], status)]
  /\ UNCHANGED <<docVars, otherVars, memVars, storeVars, analysisVars, fillVars, responses,
                 captured, ePc, eRuns>>

\* the backoff timer of one call fires: generateEmbedding(text, retryCount + 1)
BackoffOver ==
  /\ ePc = "embedding"
  /\ \E k \in 1..Len(eCalls) :
       /\ eCalls[k].pc = "wait"
       /\ eCalls' = [eCalls EXCEPT ![k] = Fetching(eCalls[k].field, eCalls[k].retryCount + 1,
                                                   eCalls[k].statuses, eCalls[k].waits)]
  /\ UNCHANGED <<docVars, otherVars, memVars, storeVars, analysisVars, fillVars, responses,
                 captured, ePc, eRuns>>

\* Promise.all resolves: every call has returned
EmbeddingsSettled ==
  /\ ePc = "embedding"
  /\ \A k \in 1..Len(eCalls) : eCalls[k].pc = "returned"
  /\ ePc' = "set"
  /\ UNCHANGED <<docVars, otherVars, memVars, storeVars, analysisVars, fillVars, responses,
                 captured, eCalls, eRuns>>

\* the fields whose call returned an embedding
NewEmbeddings(calls) ==
  [k \in 1..Len(SelectSeq(calls, LAMBDA c : c.result = "embedding")) |->
     SelectSeq(calls, LAMBDA c : c.result = "embedding")[k].field]

\* chrome.storage.local.set settles and storeFormEmbeddings returns
EmbeddingsWritten ==
  /\ ePc = "set"
  /\ \E ok \in BOOLEAN : StoreReturns(ok, IF ok THEN NewEmbeddings(eCalls) ELSE <<>>)
  /\ UNCHANGED <<docVars, otherVars, memVars, storeVars, analysisVars, fillVars, responses, captured>>

----------------------------------------------------------------------------
(* The pages of a site and how they re-render *)

A_1a == <<"1","a">>

cEmail == [Control EXCEPT !.id = A_e1, !.type = "email", !.labelFor = "text"]

cSelect == [Control EXCEPT !.tag = "select", !.id = A_e1, !.name = A_firstName]

cName == [Control EXCEPT !.name = A_firstName, !.type = "text", !.cls = <<"c1">>]

cPlace == [Control EXCEPT !.placeholder = P_YourEmail, !.cls = <<"c1">>]

cCheck == [Control EXCEPT !.type = "checkbox"]

cItem == [Control EXCEPT !.wrap = "item"]

cItemLabel == [Control EXCEPT !.wrap = "itemLabel", !.labelledBy = A_t1]

cDigit == [Control EXCEPT !.id = A_1a, !.labelFor = "text"]

cArea == [Control EXCEPT !.tag = "textarea"]

\* a form of the site, with or without a div around it
FormPage(outer, controls) == Page(outer, "form", "none", controls)

\* a page without a form or a container of two controls
NoFormPage == Page(FALSE, "div", "none", <<cCheck>>)

\* the pages of the site the message handlers are run on
SitePages ==
  {FormPage(FALSE, <<cEmail, cName>>), FormPage(FALSE, <<cPlace, cCheck>>), NoFormPage}

\* the pages of the site whose fields are filled
FillPages ==
  {FormPage(FALSE, <<cEmail, cName>>), FormPage(TRUE, <<cSelect, cName>>),
   FormPage(FALSE, <<cPlace, cCheck>>), FormPage(FALSE, <<cDigit, cArea>>),
   FormPage(FALSE, <<cItem, cItemLabel>>), FormPage(TRUE, <<cItem, cItemLabel>>),
   FormPage(FALSE, <<cCheck>>)}

\* the pages a page of the site can turn into
UpdatedPages == FillPages \cup {FormPage(TRUE, <<cPlace, cCheck>>)}

MaxPageUpdates == 2

\* the page's own script replaces the content of the document
Renders(page, isLarge) ==
  /\ dom' = Rerendered(dom, page)
  /\ large' = isLarge
  /\ changes' = changes + 1
  /\ analysed' = FALSE
  /\ UNCHANGED <<otherVars, embedVars, fieldMap, resolved, storeVars, analysisVars, fillVars, responses>>

\* the page re-renders while the handlers run
DomChange ==
  /\ changes < MaxDomChanges
  /\ \E page \in SitePages, isLarge \in BOOLEAN : Renders(page, isLarge)

\* fields are loaded dynamically while a fill runs
PageUpdates ==
  /\ changes < MaxPageUpdates
  /\ \E page \in UpdatedPages : Renders(page, FALSE)

----------------------------------------------------------------------------
(* The content script: the message handlers on a page of the site *)

Init ==
  /\ dom \in SitePages
  /\ large \in BOOLEAN
  /\ changes = 0
  /\ fieldMap = <<>>
  /\ resolved = <<>>
  /\ analysed = FALSE
  /\ Quiet

Next ==
  \/ ReadPage
  \/ SyncRemoved
  \/ LocalRemoved
  \/ SyncSet
  \/ LocalSet
  \/ FillForm
  \/ StatsRead
  \/ SyncRead
  \/ LocalRead
  \/ Suggested
  \/ Delayed
  \/ DomChange

Spec == Init /\ [][Next]_vars

----------------------------------------------------------------------------
(* Fills of an analysed page *)

\* the state analyzePage leaves when both storage areas took the record
AfterAnalysis(page, result) ==
  /\ Len(result.fields) > 0
  /\ dom = page
  /\ large = FALSE
  /\ changes = 0
  /\ fieldMap = result.fields
  /\ resolved = result.log
  /\ analysed = TRUE
  /\ sync = Stored(Compress(result.fields))
  /\ local = Stored(Compress(result.fields))
  /\ aPc = "idle"
  /\ aRun = NoRun
  /\ aRuns = <<[version      |-> 0,
                fields       |-> result.fields,
                log          |-> result.log,
                record       |-> Compress(result.fields),
                triedSync    |-> TRUE,
                savedToSync  |-> TRUE,
                savedToLocal |-> TRUE,
                success      |-> TRUE]>>
  /\ responses = <<[action |-> "readPage", success |-> TRUE]>>
  /\ Unsubmitted
  /\ Dormant

InitFill ==
  /\ \E page \in FillPages : AfterAnalysis(page, AnalyzeFormFields(page, FindForms(page)))
  /\ fPc = "idle"
  /\ fFields = <<>>
  /\ fIdx = 0
  /\ fSuggestion = NoSuggestion
  /\ fFinds = <<>>
  /\ fLog = <<>>

NextFill ==
  \/ FillForm
  \/ StatsRead
  \/ SyncRead
  \/ LocalRead
  \/ Suggested
  \/ Delayed
  \/ PageUpdates

SpecFill == InitFill /\ [][NextFill]_vars

----------------------------------------------------------------------------
(* Fills of single fields of every kind *)

\* tag and type attribute of the controls that are filled
InputKinds ==
  {<<"input", ty>> : ty \in {"", "text", "email", "number", "tel", "url", "date", "checkbox"}}
  \cup {<<"select", "">>, <<"textarea", "">>}

\* a control of the kind, titled by its label or by its name
Labelled(kind) ==
  [Control EXCEPT !.tag = kind[1], !.type = kind[2], !.id = A_e1, !.labelFor = "text",
                  !.options = IF kind[1] = "select" THEN {V_Answer} ELSE {}]

Named(kind) ==
  [Control EXCEPT !.tag = kind[1], !.type = kind[2], !.name = A_firstName,
                  !.options = IF kind[1] = "select" THEN {V_Answer} ELSE {}]

InputPages ==
  {FormPage(FALSE, <<Labelled(kind)>>) : kind \in InputKinds}
  \cup {FormPage(FALSE, <<Named(kind)>>) : kind \in InputKinds}

InitInput ==
  /\ \E page \in InputPages : AfterAnalysis(page, AnalyzeFormFields(page, FindForms(page)))
  /\ fPc = "idle"
  /\ fFields = <<>>
  /\ fIdx = 0
  /\ fSuggestion = NoSuggestion
  /\ fFinds = <<>>
  /\ fLog = <<>>

NextInput ==
  \/ FillForm
  \/ StatsRead
  \/ SyncRead
  \/ LocalRead
  \/ SuggestedOfChunks
  \/ Delayed
  \/ PageUpdates

SpecInput == InitInput /\ [][NextInput]_vars

----------------------------------------------------------------------------
(* Submissions of a filled-in form *)

cHidden == [Control EXCEPT !.type = "hidden", !.name = A_q1]

cAriaHidden == [Control EXCEPT !.name = A_phoneNumber, !.skip = "ariaHidden"]

\* the page with every control filled in
FilledIn(page) ==
  [k \in 1..Len(page) |->
     IF IsInteractive(page[k]) THEN [page[k] EXCEPT !.value = V_Answer, !.checked = TRUE]
     ELSE page[k]]

\* the forms that are submitted
SubmitPages ==
  {FilledIn(FormPage(FALSE, <<cEmail, cName>>)),
   FilledIn(FormPage(FALSE, <<cPlace, cCheck>>)),
   FilledIn(FormPage(FALSE, <<cName, cHidden>>)),
   FilledIn(FormPage(FALSE, <<cAriaHidden, cArea>>)),
   FilledIn(FormPage(TRUE, <<cSelect, cAriaHidden>>))}

InitSubmit ==
  /\ dom \in SubmitPages
  /\ large = FALSE
  /\ changes = 0
  /\ fieldMap = <<>>
  /\ resolved = <<>>
  /\ analysed = FALSE
  /\ Quiet

NextSubmit ==
  \/ SubmitForm
  \/ EmbeddingsRead
  \/ Responded
  \/ BackoffOver
  \/ EmbeddingsSettled
  \/ EmbeddingsWritten

SpecSubmit == InitSubmit /\ [][NextSubmit]_vars

\* the network settles every request, timers fire and promises resolve
SpecSubmitLive ==
  /\ SpecSubmit
  /\ WF_vars(Responded)
  /\ WF_vars(BackoffOver)
  /\ WF_vars(EmbeddingsSettled)

----------------------------------------------------------------------------
(* The submission monitor of the content script (content.js:1059-1146) *)

MaxMonitorCalls == 2

MaxGestures == 2

T_Save == <<"S","a","v","e">>

T_Send == <<"S","e","n","d">>

T_Check == <<"C","h","e","c","k">>

W_submit == <<"s","u","b","m","i","t">>

W_send == <<"s","e","n","d">>

M_ProcessingData == <<"P","r","o","c","e","s","s","i","n","g"," ","f","o","r","m"," ",
                      "d","a","t","a",".",".",".">>

\* the class names that contain 'submit'
SubmitClasses == {"submit", "btn-submit", "submit-button"}

\* element.type of a click target: a button without a type is a submit button
ClickType(n) ==
  IF n.tag = "button" THEN (IF n.type = "" THEN "submit" ELSE n.type) ELSE TypeProp(n)

\* the test of the click listener: is the target a submit button
IsSubmitTarget(d, t) ==
  \/ ClickType(d[t]) = "submit"
  \/ d[t].type = "submit"
  \/ Includes(ToLowerCase(TextContent(d, t)), W_submit)
  \/ Includes(ToLowerCase(TextContent(d, t)), W_send)
  \/ \E k \in 1..Len(d[t].cls) : d[t].cls[k] \in SubmitClasses

\* target.closest('form') || target.closest('div, section')
ClickedForm(d, t) ==
  OrElement(Closest(d, t, {j \in 1..Len(d) : d[j].tag = "form"}),
            Closest(d, t, {j \in 1..Len(d) : d[j].tag \in {"div", "section"}}))

\* the form a click on the target submits: the target is a submit button of a form
SubmittedForm(d, t) ==
  IF d[t].tag \in {"button", "input"} /\ ClickType(d[t]) = "submit"
  THEN Closest(d, t, {j \in 1..Len(d) : d[j].tag = "form"})
  ELSE 0

\* a run of processFormSubmission: the message is sent if a field was captured
Run(trigger, gesture, form, data) ==
  [trigger |-> trigger, gesture |-> gesture, form |-> form,
   fields |-> KeysOf(data.fields), sent |-> Len(data.fields) > 0]

\* one entry per registered listener
Times(n, entry) == [k \in 1..n |-> entry]

\* (a variant that registers the listeners at every call)
RegistersAlways(monitoring) == TRUE

\* if (isMonitoringSubmissions) return
Registers(monitoring) == ~monitoring

\* monitorFormSubmissions(), called when the page has loaded and at every fillForm
MonitorFormSubmissions ==
  /\ ~unloaded
  /\ monitorCalls < MaxMonitorCalls
  /\ monitorCalls' = monitorCalls + 1
  /\ isMonitoringSubmissions' = TRUE
  /\ listeners' = IF Registers(isMonitoringSubmissions) THEN listeners + 1 ELSE listeners
  /\ UNCHANGED <<docVars, memVars, storeVars, analysisVars, fillVars, responses, embedVars,
                 timers, gestures, procRuns, unloaded, channels, serviceVars>>

\* the timers the click listeners set for a click
TimersOf(d, t, gesture) ==
  IF IsSubmitTarget(d, t) /\ ClickedForm(d, t) # 0
  THEN Times(listeners, [gesture |-> gesture, form |-> ClickedForm(d, t)])
  ELSE <<>>

\* the runs of the submit listeners for a click
SubmitRunsOf(d, t, gesture) ==
  IF SubmittedForm(d, t) # 0
  THEN Times(listeners,
             Run("submit", gesture, SubmittedForm(d, t),
                 ProcessFormSubmission(ShowWorkingIndicator(d, M_Processing),
                                       SubmittedForm(d, t))))
  ELSE <<>>

\* the user clicks an element: the click listeners run, and if the element is the
\* submit button of a form the form is submitted and the submit listeners run, each
\* up to the end of processFormSubmission
Clicked(t) ==
  /\ gestures' = Append(gestures, [target |-> t, monitored |-> listeners > 0,
                                    submits |-> SubmittedForm(dom, t) # 0])
  /\ timers' = timers \o TimersOf(dom, t, Len(gestures) + 1)
  /\ procRuns' = procRuns \o SubmitRunsOf(dom, t, Len(gestures) + 1)
  /\ dom' = IF SubmitRunsOf(dom, t, Len(gestures) + 1) # <<>>
            THEN HideWorkingIndicator(ShowWorkingIndicator(dom, M_Processing))
            ELSE dom

Click ==
  /\ ~unloaded
  /\ Len(gestures) < MaxGestures
  /\ \E t \in {j \in 1..Len(dom) : dom[j].tag = "button" \/ IsInteractive(dom[j])} : Clicked(t)
  /\ UNCHANGED <<large, changes, memVars, storeVars, analysisVars, fillVars, responses,
                 embedVars, isMonitoringSubmissions, listeners, monitorCalls, unloaded,
                 channels, serviceVars>>

\* a 500 ms timer of the click listener fires: processFormSubmission(form)
TimerFires ==
  /\ ~unloaded
  /\ timers # <<>>
  /\ procRuns' = Append(procRuns,
                        Run("click", Head(timers).gesture, Head(timers).form,
                            ProcessFormSubmission(ShowWorkingIndicator(dom, M_ProcessingData),
                                                  Head(timers).form)))
  /\ timers' = Tail(timers)
  /\ dom' = HideWorkingIndicator(ShowWorkingIndicator(dom, M_ProcessingData))
  /\ UNCHANGED <<large, changes, memVars, storeVars, analysisVars, fillVars, responses,
                 embedVars, isMonitoringSubmissions, listeners, monitorCalls, gestures,
                 unloaded, channels, serviceVars>>

\* the submission makes the browser leave the page: its timers are gone
PageLeft ==
  /\ ~unloaded
  /\ \E g \in 1..Len(gestures) : gestures[g].submits
  /\ unloaded' = TRUE
  /\ timers' = <<>>
  /\ UNCHANGED <<docVars, memVars, storeVars, analysisVars, fillVars, responses, embedVars,
                 isMonitoringSubmissions, listeners, monitorCalls, gestures, procRuns,
                 channels, serviceVars>>

\* a button as the last child of the form of a page
WithButton(page, button) ==
  Append(page, [button EXCEPT !.parent =
                  First(DocQuerySelectorAll(page, {j \in 1..Len(page) : page[j].tag = "form"}))])

Captioned(ns, text) == IF text = <<>> THEN ns ELSE AppendText(ns, text)

\* <button>Save</button>, <input type="submit">, <button type="button">Check</button>
Buttons ==
  {[node |-> Node("button", 0), text |-> T_Save],
   [node |-> [Node("input", 0) EXCEPT !.type = "submit", !.value = T_Save], text |-> <<>>],
   [node |-> [Node("button", 0) EXCEPT !.type = "button"], text |-> T_Check]}

\* the filled-in forms with their buttons
MonitorPages ==
  {Captioned(WithButton(page, b.node), b.text) : page \in SubmitPages, b \in Buttons}

----------------------------------------------------------------------------
(* The content script watching the submissions of a page *)

InitMonitor ==
  /\ dom \in MonitorPages
  /\ large = FALSE
  /\ changes = 0
  /\ fieldMap = <<>>
  /\ resolved = <<>>
  /\ analysed = FALSE
  /\ Quiet

NextMonitor ==
  \/ MonitorFormSubmissions
  \/ Click
  \/ TimerFires
  \/ PageLeft

SpecMonitor == InitMonitor /\ [][NextMonitor]_vars

----------------------------------------------------------------------------
(* The message listeners of the content script (content.js:2-36) and of the
   background worker (background.js:95-116), and the background's handlers *)

MaxMessages == 2

MaxKeySaves == 2

NumKeys == 2

ContentActions == {"ping", "readPage", "fillForm", "other"}

BackgroundActions ==
  {"formSubmitted", "requestFormPrediction", "uploadFile", "searchKnowledge", "apiKeyUpdated"}

\* whether the senders of the extension wait for a response: a callback in
\* popup.js:291,471,512 and content.js:651,1202, an awaited promise in popup.js:440,
\* neither in popup.js:181
Callbacks(action) ==
  IF action \in {"ping", "readPage", "fillForm", "formSubmitted", "uploadFile", "searchKnowledge"}
  THEN {TRUE}
  ELSE IF action = "apiKeyUpdated" THEN {FALSE} ELSE BOOLEAN

\* whether the sender is a tab (sender.tab?.id): the content script is, the popup is not
Tabs(action) ==
  IF action \in {"formSubmitted", "searchKnowledge"} THEN {TRUE}
  ELSE IF action \in {"uploadFile", "apiKeyUpdated"} THEN {FALSE} ELSE BOOLEAN

\* a message and its channel: open if the listener returned true, pending while a
\* promise that ends in sendResponse is not settled, sent counts the sendResponse calls
Channel(to, action, callback, open, pending, sent) ==
  [to |-> to, action |-> action, callback |-> callback, open |-> open,
   pending |-> pending, sent |-> sent]

\* a run of a handler of the background; uses are the service variables it read
Handler(name, channel, pc) ==
  [name |-> name, channel |-> channel, pc |-> pc, uses |-> <<>>, reset |-> FALSE]

Use(service, value) == [service |-> service, value |-> value]

\* sendResponse(...)
SendResponse(chs, c) == [chs EXCEPT ![c].sent = @ + 1, ![c].pending = FALSE]

\* the promise settles and nothing calls sendResponse
NoResponse(chs, c) == [chs EXCEPT ![c].pending = FALSE]

\* the content listener returns: ping is answered at once, readPage and fillForm
\* when their promise resolves, and every action returns true
ContentListener(action, callback) ==
  IF action = "ping" THEN Channel("content", action, callback, TRUE, FALSE, 1)
  ELSE Channel("content", action, callback, TRUE, action \in {"readPage", "fillForm"}, 0)

\* the content listener up to its return; analyzePage and fillFormsOnPage themselves are
\* the actions of the content-script specification
ContentReceives ==
  /\ Len(channels) < MaxMessages
  /\ \E action \in ContentActions : \E callback \in Callbacks(action) :
       /\ channels' = Append(channels, ContentListener(action, callback))
       /\ dom' = IF action = "readPage" THEN ShowWorkingIndicator(dom, M_Analyzing)
                 ELSE IF action = "fillForm" THEN ShowWorkingIndicator(dom, M_Filling)
                 ELSE dom
       /\ isMonitoringSubmissions' = (isMonitoringSubmissions \/ action = "fillForm")
       /\ monitorCalls' = IF action = "fillForm" THEN monitorCalls + 1 ELSE monitorCalls
       /\ listeners' = IF action = "fillForm" /\ Registers(isMonitoringSubmissions)
                       THEN listeners + 1 ELSE listeners
  /\ UNCHANGED <<large, changes, memVars, storeVars, analysisVars, fillVars, responses,
                 embedVars, timers, gestures, procRuns, unloaded, serviceVars>>

\* the promise of analyzePage or fillFormsOnPage resolves: hideWorkingIndicator and
\* sendResponse
ContentSettles ==
  /\ \E c \in 1..Len(channels) : \E success \in BOOLEAN :
       /\ channels[c].to = "content"
       /\ channels[c].pending
       /\ channels' = SendResponse(channels, c)
       /\ responses' = Append(responses, [action |-> channels[c].action, success |-> success])
  /\ dom' = HideWorkingIndicator(dom)
  /\ UNCHANGED <<large, changes, memVars, storeVars, analysisVars, fillVars, embedVars,
                 monitorVars, serviceVars>>

\* the handler the background listener calls
HandlerOf(action) ==
  CASE action = "formSubmitted" -> "handleFormSubmission"
    [] action = "requestFormPrediction" -> "handlePredictionRequest"
    [] action = "uploadFile" -> "handleFileUpload"
    [] action = "searchKnowledge" -> "handleKnowledgeSearch"
    [] action = "apiKeyUpdated" -> "handleApiKeyUpdate"

\* (a variant in which every handler's result is passed to sendResponse)
AnswersAll(name) == TRUE

\* the listener passes the handler's result to sendResponse and returns true
Answers(name) == name \in {"handlePredictionRequest", "handleFileUpload", "handleKnowledgeSearch"}

\* the listener also answers when the handler's promise rejects
Catches(name) == name \in {"handleFileUpload", "handleKnowledgeSearch"}

\* the handler awaits setWorkingIcon(tabId) first
SetsIcon(name) ==
  name \in {"handleFormSubmission", "handlePredictionRequest", "handleFileUpload"}

\* the service the handler calls when initializeServices has returned
FirstService(name) ==
  IF name \in {"handleFileUpload", "handleKnowledgeSearch"} THEN "fileService"
  ELSE "embeddingService"

\* the handler goes on to a generation of geminiService when the awaited call settles:
\* no chunk was found (background.js:192-196), similar fields were found (592-594)
Generates(name, outcome) ==
  \/ name = "handleKnowledgeSearch" /\ outcome = "none"
  \/ name = "handlePredictionRequest" /\ outcome = "found"

\* the background listener returns
BackgroundListener(action, callback) ==
  Channel("background", action, callback, Answers(HandlerOf(action)),
          Answers(HandlerOf(action)), 0)

\* if (!embeddingService || !geminiService || !fileService) service = new Service(API_KEY)
Created(service, key) ==
  IF embeddingService = 0 \/ geminiService = 0 \/ fileService = 0 THEN key ELSE service

\* (a variant that keeps the services when the key changes)
AfterKeyUpdateKept(service, newApiKey) == service

\* if (newApiKey !== API_KEY) service = null
AfterKeyUpdate(service, newApiKey) == IF newApiKey # API_KEY THEN 0 ELSE service

\* initializeServices with a key, and the handler's first call of a service
InitializeServices(hs, h, key) ==
  /\ API_KEY' = key
  /\ embeddingService' = Created(embeddingService, key)
  /\ geminiService' = Created(geminiService, key)
  /\ fileService' = Created(fileService, key)
  /\ handlers' = [hs EXCEPT ![h].pc = "use",
                            ![h].uses = Append(@, Use(FirstService(hs[h].name),
                                                      IF FirstService(hs[h].name) = "fileService"
                                                      THEN Created(fileService, key)
                                                      ELSE Created(embeddingService, key)))]

\* the handler calls initializeServices: without a key it awaits loadApiKey
CallsInitialize(hs, h) ==
  IF API_KEY = 0
  THEN /\ handlers' = [hs EXCEPT ![h].pc = "loadKey"]
       /\ UNCHANGED <<API_KEY, embeddingService, geminiService, fileService>>
  ELSE InitializeServices(hs, h, API_KEY)

\* the handler runs up to its first await
Starts(hs, h, tab) ==
  IF hs[h].name = "handleApiKeyUpdate"
  THEN /\ handlers' = [hs EXCEPT ![h].pc = "read"]
       /\ UNCHANGED <<API_KEY, embeddingService, geminiService, fileService>>
  ELSE IF tab /\ SetsIcon(hs[h].name)
       THEN /\ handlers' = [hs EXCEPT ![h].pc = "icon"]
            /\ UNCHANGED <<API_KEY, embeddingService, geminiService, fileService>>
       ELSE CallsInitialize(hs, h)

\* the handler's promise settles, and the listener's then or catch runs
Finishes(hs, h, rejected) ==
  /\ handlers' = [hs EXCEPT ![h].pc = "done"]
  /\ channels' = IF Answers(hs[h].name) /\ (~rejected \/ Catches(hs[h].name))
                 THEN SendResponse(channels, hs[h].channel)
                 ELSE IF hs[h].channel # 0 THEN NoResponse(channels, hs[h].channel)
                      ELSE channels

\* the background listener, and the handler it calls up to the handler's first await
BackgroundReceives ==
  /\ Len(channels) < MaxMessages
  /\ \E action \in BackgroundActions : \E callback \in Callbacks(action), tab \in Tabs(action) :
       /\ channels' = Append(channels, BackgroundListener(action, callback))
       /\ Starts(Append(handlers, Handler(HandlerOf(action), Len(channels) + 1, "new")),
                 Len(handlers) + 1, tab)
  /\ UNCHANGED <<docVars, memVars, storeVars, analysisVars, fillVars, responses, embedVars,
                 monitorVars, storedKey, keyUpdates>>

\* setWorkingIcon settles; if the tab is gone it rejects, and so does the setNormalIcon
\* of the handler's catch block
IconSet ==
  /\ \E h \in 1..Len(handlers) : \E ok \in BOOLEAN :
       /\ handlers[h].pc = "icon"
       /\ IF ok
          THEN CallsInitialize(handlers, h) /\ UNCHANGED channels
          ELSE /\ Finishes(handlers, h, TRUE)
               /\ UNCHANGED <<API_KEY, embeddingService, geminiService, fileService>>
  /\ UNCHANGED <<docVars, memVars, storeVars, analysisVars, fillVars, responses, embedVars,
                 monitorVars, storedKey, keyUpdates>>

\* loadApiKey's read of the storage settles inside initializeServices: without a key
\* initializeServices throws and the handler's catch block returns or throws
KeyLoaded ==
  /\ \E h \in 1..Len(handlers) :
       /\ handlers[h].pc = "loadKey"
       /\ IF storedKey = 0
          THEN /\ Finishes(handlers, h, handlers[h].name = "handleFileUpload")
               /\ API_KEY' = 0
               /\ UNCHANGED <<embeddingService, geminiService, fileService>>
          ELSE InitializeServices(handlers, h, storedKey) /\ UNCHANGED channels
  /\ UNCHANGED <<docVars, memVars, storeVars, analysisVars, fillVars, responses, embedVars,
                 monitorVars, storedKey, keyUpdates>>

\* the handler reads geminiService to call it (background.js:262, 594): null throws a
\* TypeError that the try block around the call catches
CallsGemini(h) ==
  IF geminiService = 0
  THEN Finishes([handlers EXCEPT ![h].uses = Append(@, Use("geminiService", 0))], h, FALSE)
  ELSE /\ handlers' = [handlers EXCEPT ![h].pc = "generate",
                                        ![h].uses = Append(@, Use("geminiService", geminiService))]
       /\ UNCHANGED channels

\* the awaited call of fileService or embeddingService settles
ServiceSettles ==
  /\ \E h \in 1..Len(handlers) : \E outcome \in {"found", "none", "error"} :
       /\ handlers[h].pc = "use"
       /\ IF Generates(handlers[h].name, outcome)
          THEN CallsGemini(h)
          ELSE Finishes(handlers, h, outcome = "error" /\ handlers[h].name = "handleFileUpload")
  /\ UNCHANGED <<docVars, memVars, storeVars, analysisVars, fillVars, responses, embedVars,
                 monitorVars, API_KEY, storedKey, embeddingService, geminiService,
                 fileService, keyUpdates>>

\* the generation of geminiService settles
GenerationSettles ==
  /\ \E h \in 1..Len(handlers) :
       /\ handlers[h].pc = "generate"
       /\ Finishes(handlers, h, FALSE)
  /\ UNCHANGED <<docVars, memVars, storeVars, analysisVars, fillVars, responses, embedVars,
                 monitorVars, API_KEY, storedKey, embeddingService, geminiService,
                 fileService, keyUpdates>>

\* handleApiKeyUpdate's read of the storage settles
KeyRead ==
  /\ \E h \in 1..Len(handlers) :
       /\ handlers[h].pc = "read"
       /\ handlers' = [handlers EXCEPT ![h].pc = "done", ![h].reset = (storedKey # API_KEY)]
  /\ API_KEY' = storedKey
  /\ embeddingService' = AfterKeyUpdate(embeddingService, storedKey)
  /\ geminiService' = AfterKeyUpdate(geminiService, storedKey)
  /\ fileService' = AfterKeyUpdate(fileService, storedKey)
  /\ UNCHANGED <<docVars, memVars, storeVars, analysisVars, fillVars, responses, embedVars,
                 monitorVars, channels, storedKey, keyUpdates>>

\* the popup saves an API key (popup.js:172): chrome.storage.onChanged calls
\* handleApiKeyUpdate in the background if the value changed (background.js:33-38)
KeySaved ==
  /\ keyUpdates < MaxKeySaves
  /\ \E key \in 1..NumKeys :
       /\ storedKey' = key
       /\ handlers' = IF key # storedKey
                      THEN Append(handlers, Handler("handleApiKeyUpdate", 0, "read"))
                      ELSE handlers
  /\ keyUpdates' = keyUpdates + 1
  /\ UNCHANGED <<docVars, memVars, storeVars, analysisVars, fillVars, responses, embedVars,
                 monitorVars, channels, API_KEY, embeddingService, geminiService, fileService>>

InitMessages ==
  /\ dom = FormPage(FALSE, <<cEmail, cName>>)
  /\ large = FALSE
  /\ changes = 0
  /\ fieldMap = <<>>
  /\ resolved = <<>>
  /\ analysed = FALSE
  /\ Quiet

NextMessages ==
  \/ ContentReceives
  \/ ContentSettles
  \/ BackgroundReceives
  \/ IconSet
  \/ KeyLoaded
  \/ ServiceSettles
  \/ GenerationSettles
  \/ KeyRead
  \/ KeySaved

SpecMessages == InitMessages /\ [][NextMessages]_vars

----------------------------------------------------------------------------
(* Properties of the scorer *)

\* the trimmed texts of the elements an aria-labelledby attribute names, the ids that
\* name no element left out
ReferencedTexts(d, e) ==
  LET ids == SelectSeq(SplitSpace(d[e].labelledBy), LAMBDA id : GetElementById(d, id) # 0)
  IN  [k \in 1..Len(ids) |-> Trim(TextContent(d, GetElementById(d, ids[k])))]

AllReferencesExist(d, e) ==
  /\ d[e].labelledBy # <<>>
  /\ \A k \in 1..Len(SplitSpace(d[e].labelledBy)) :
        GetElementById(d, SplitSpace(d[e].labelledBy)[k]) # 0

NonEmpty(texts) == SelectSeq(texts, LAMBDA t : t # <<>>)

\* C1 as stated: a field whose aria-labelledby references existing elements gets the
\* space-joined text of those elements as its title, source aria_labelledby,
\* confidence 1.0, whatever its other clues.
C1_AsStated ==
  \A k \in 1..Len(resolved) :
    AllReferencesExist(dom, resolved[k].element) =>
      resolved[k].title =
        Title(JoinSpace(ReferencedTexts(dom, resolved[k].element)), "aria_labelledby", 100)

\* C1, amended: a field whose aria-labelledby references at least one existing
\* element with non-blank text gets as its title the space-joined trimmed non-blank
\* texts of the referenced elements, source aria_labelledby, confidence 1.0, whatever
\* its other clues.
C1_LabelledByWins ==
  \A k \in 1..Len(resolved) :
    LET e == resolved[k].element
        texts == NonEmpty(ReferencedTexts(dom, e))
    IN  /\ texts # <<>> =>
             resolved[k].title = Title(JoinSpace(texts), "aria_labelledby", 100)
        /\ dom[e].labelledBy = A_l1l2 =>
             resolved[k].title.text = <<"F","i","r","s","t"," ","N","a","m","e">>

\* a field with two referenced texts and a name, an id, a placeholder, an aria-label
\* and an enclosing label besides has been analysed
C1_Witness ==
  \E k \in 1..Len(resolved) :
    LET n == dom[resolved[k].element]
    IN  /\ n.labelledBy = A_l1l2 /\ n.name = A_firstName /\ n.id = A_userEmail
        /\ n.placeholder = P_YourEmail /\ n.ariaLabel = T_Phone
        /\ dom[n.parent].tag = "label"

NonTrivialName(n) ==
  Len(NameProp(n)) > 3 /\ ~PrefixDigits(<<"f","i","e","l","d">>, NameProp(n))

\* C2 as stated: without an aria-labelledby clue, a name longer than 3 characters
\* that is not field<digits> gives the humanized name as the title, source
\* name_attribute, confidence 0.8.
C2_AsStated ==
  \A k \in 1..Len(resolved) :
    LET e == resolved[k].element
    IN  (NonEmpty(ReferencedTexts(dom, e)) = <<>> /\ NonTrivialName(dom[e])) =>
          resolved[k].title = Title(Humanize(dom[e].name), "name_attribute", 80)

\* C2, amended: the same, for names whose humanized form is itself longer than 3
\* characters; firstName gives "first name" and phoneNumber "phone number".
C2_NameTitle ==
  \A k \in 1..Len(resolved) :
    LET e == resolved[k].element
    IN  (NonEmpty(ReferencedTexts(dom, e)) = <<>> /\ NonTrivialName(dom[e])
         /\ Len(Humanize(dom[e].name)) > 3) =>
          /\ resolved[k].title.source = "name_attribute"
          /\ resolved[k].title.confidence = 80
          /\ resolved[k].title.text = Humanize(dom[e].name)
          /\ dom[e].name = A_firstName =>
               resolved[k].title.text = <<"f","i","r","s","t"," ","n","a","m","e">>
          /\ dom[e].name = A_phoneNumber =>
               resolved[k].title.text = <<"p","h","o","n","e"," ","n","u","m","b","e","r">>
          /\ dom[e].name = A_user_name =>
               resolved[k].title.text = <<"u","s","e","r"," ","n","a","m","e">>

\* a field named phoneNumber with no other context at all has been analysed, and so
\* has a field named firstName that has an id, a placeholder and a label too
C2_Witness ==
  /\ \E k \in 1..Len(resolved) :
       LET e == resolved[k].element
       IN  /\ dom[e].name = A_phoneNumber
           /\ FindContextualInfo(dom, e).contextClues = <<>>
  \/ \E k \in 1..Len(resolved) :
       LET e == resolved[k].element
       IN  /\ dom[e].name = A_firstName /\ dom[e].id = A_userEmail
           /\ dom[e].placeholder = P_YourEmail /\ dom[dom[e].parent].tag = "label"

\* the elements analysis looks at: the interactive elements of the containers
Candidates(d) ==
  {e \in 1..Len(d) :
     IsInteractive(d[e]) /\ \E f \in 1..Len(FindForms(d)) : IsDescendant(d, e, FindForms(d)[f])}

EntriesOf(fields, e) == {k \in 1..Len(fields) : fields[k].value.element = e}

\* label[for=id] elements of a field, and the labels that enclose it within its form
ForLabels(d, e) ==
  {j \in 1..Len(d) : d[j].tag = "label" /\ d[e].id # <<>> /\ d[j].for = d[e].id}

EnclosingLabels(d, e) ==
  {j \in 1..Len(d) :
     /\ d[j].tag = "label" /\ IsDescendant(d, e, j)
     /\ ~\E f \in 1..Len(d) : d[f].tag = "form" /\ IsDescendant(d, e, f) /\ IsDescendant(d, f, j)}

Min(S) == CHOOSE x \in S : \A y \in S : x <= y

Max(S) == CHOOSE x \in S : \A y \in S : x >= y

\* the label the page author gave the field: the first label[for=id], else the
\* innermost enclosing label
LabelOf(d, e) ==
  IF ForLabels(d, e) # {} THEN Min(ForLabels(d, e)) ELSE Max(EnclosingLabels(d, e))

LabelledOnly(d, e) ==
  /\ ForLabels(d, e) \cup EnclosingLabels(d, e) # {}
  /\ d[e].labelledBy = <<>>
  /\ ~NonTrivialName(d[e])
  /\ Len(d[e].id) <= 3
  /\ Len(d[e].placeholder) <= 3

\* the property element.type of a control, 'text' for an input that states none
ElementType(n) ==
  IF n.tag = "input" THEN (IF n.type = "" THEN "text" ELSE n.type)
  ELSE IF n.tag = "select" THEN "select-one" ELSE n.tag

HasLabelEntry(e, key) ==
  \E k \in EntriesOf(fieldMap, e) :
    /\ fieldMap[k].key = key
    /\ fieldMap[k].value.title =
         Title(Trim(TextContent(dom, LabelOf(dom, e))), "explicit_label", 90)
    /\ fieldMap[k].value.info.type = ElementType(dom[e])

\* C3 as stated: a field with an explicit label (label[for=id] or an enclosing label),
\* no aria-labelledby, no non-trivial name, an id of at most 3 characters and a
\* placeholder of at most 3 characters gets a field map entry titled with the label
\* text, source explicit_label, confidence 0.9, and typed with the element type.
C3_AsStated ==
  \A k \in 1..Len(resolved) :
    LabelledOnly(dom, resolved[k].element) =>
      HasLabelEntry(resolved[k].element, resolved[k].key)

\* C3, amended: the same, for labels whose text is not blank.
C3_LabelEntry ==
  \A k \in 1..Len(resolved) :
    LET e == resolved[k].element
    IN  (LabelledOnly(dom, e) /\ Trim(TextContent(dom, LabelOf(dom, e))) # <<>>) =>
          /\ HasLabelEntry(e, resolved[k].key)
          /\ \A i \in EntriesOf(fieldMap, e) : fieldMap[i].value.title.source = "explicit_label"
          /\ (dom[e].id = A_e1 /\ ForLabels(dom, e) # {}) =>
               \E i \in EntriesOf(fieldMap, e) :
                 /\ fieldMap[i].key = A_e1
                 /\ fieldMap[i].value.info.type = "email"
                 /\ fieldMap[i].value.title.text =
                      <<"E","m","a","i","l"," ","A","d","d","r","e","s","s">>

\* <label for="e1">Email Address</label><input id="e1" type="email"> in a div has
\* been analysed
C3_Witness ==
  \E k \in 1..Len(resolved) :
    LET e == resolved[k].element
    IN  /\ LabelledOnly(dom, e)
        /\ dom[e].id = A_e1 /\ dom[e].type = "email" /\ dom[dom[e].parent].tag = "div"
        /\ ForLabels(dom, e) # {}
        /\ Trim(TextContent(dom, LabelOf(dom, e))) = T_EmailAddress

HeadingRoleAbove(d, e) == \E j \in 1..Len(d) : d[j].role = "heading" /\ IsDescendant(d, e, j)

\* no label, no aria attribute, no heading ancestor, no placeholder, no nearby text
Contextless(d, e) ==
  /\ ForLabels(d, e) \cup EnclosingLabels(d, e) = {}
  /\ d[e].labelledBy = <<>> /\ d[e].ariaLabel = <<>> /\ d[e].ariaDescription = <<>>
  /\ ~HeadingRoleAbove(d, e)
  /\ d[e].placeholder = <<>>
  /\ GetPrecedingTextNode(d, e) = <<>>
  /\ GetNearbyDescriptiveElements(d, e) = <<>>
  /\ FindNearbyHeadings(d, e) = <<>>
  /\ d[e].parent # 0 =>
       QuerySelectorAll(d, d[e].parent, {j \in 1..Len(d) : IsHelpElement(d[j])}) = <<>>

\* C4 as stated: a field with no label, no aria attributes, no heading ancestor, no
\* placeholder and no nearby text has no entry in the field map, whatever its
\* remaining attributes.
C4_AsStated ==
  analysed => \A e \in Candidates(dom) : Contextless(dom, e) => EntriesOf(fieldMap, e) = {}

NameOrIdTitle(n) ==
  \/ NonTrivialName(n) /\ Len(Humanize(NameProp(n))) > 3
  \/ Len(n.id) > 3 /\ ~PrefixDigits(<<"i","n","p","u","t">>, n.id) /\ Len(Humanize(n.id)) > 3

\* C4, amended: such a field has no entry in the field map provided that, besides,
\* it has no title and no data-tooltip attribute, carries no heading role itself,
\* and neither its name nor its id is one the scorer turns into a title (longer
\* than 3 characters, not field<digits> / input<digits>, humanized form longer than
\* 3 characters).
C4_NoContextNoEntry ==
  analysed =>
    \A e \in Candidates(dom) :
      (Contextless(dom, e) /\ ~NameOrIdTitle(dom[e]) /\ dom[e].title = <<>>
       /\ dom[e].dataTooltip = <<>> /\ dom[e].role # "heading") =>
        /\ EntriesOf(fieldMap, e) = {}
        /\ \A k \in 1..Len(resolved) :
             resolved[k].element = e => resolved[k].title = NoTitle

\* a visible field without context has been analysed, whose id and name are set but
\* too short or generic to become a title
C4_Witness ==
  /\ analysed
  /\ \E k \in 1..Len(resolved) :
       LET e == resolved[k].element
       IN  /\ Contextless(dom, e) /\ dom[e].title = <<>> /\ dom[e].dataTooltip = <<>>
           /\ dom[e].id = A_e1 /\ dom[e].name = A_field1

\* C6: no entry of the field map comes from a field of type hidden, whatever its
\* labels, names and other clues and in however many containers it lies.
C6_HiddenExcluded ==
  \A k \in 1..Len(fieldMap) :
    LET n == dom[fieldMap[k].value.element]
    IN  ~(n.tag = "input" /\ n.type = "hidden")

\* an input of type hidden that has a name and an enclosing label, in a form inside
\* a div that is a container too, has been analysed with the rest of the page
C6_Witness ==
  /\ analysed
  /\ \E e \in Candidates(dom) :
       /\ dom[e].tag = "input" /\ dom[e].type = "hidden" /\ dom[e].name = A_firstName
       /\ dom[dom[e].parent].tag = "label"
       /\ Cardinality({f \in 1..Len(FindForms(dom)) : IsDescendant(dom, e, FindForms(dom)[f])}) = 2

----------------------------------------------------------------------------
(* Properties of the stored field map *)

Titled(fields) == \A k \in 1..Len(fields) : fields[k].value.title # NoTitle

\* C5: a field for which findMeaningfulTitle returns null is dropped: after any
\* analysis neither the in-memory field map nor the record written to storage has an
\* entry made from it, and every entry of the map, of the record and of the two
\* storage areas carries a title.
C5_UntitledDropped ==
  /\ \A r \in 1..Len(aRuns) :
       /\ \A k \in 1..Len(aRuns[r].log) :
            aRuns[r].log[k].title = NoTitle =>
              /\ EntriesOf(aRuns[r].fields, aRuns[r].log[k].element) = {}
              /\ EntriesOf(aRuns[r].record, aRuns[r].log[k].element) = {}
       /\ Titled(aRuns[r].fields)
       /\ Titled(aRuns[r].record)
  /\ \A k \in 1..Len(resolved) :
       resolved[k].title = NoTitle => EntriesOf(fieldMap, resolved[k].element) = {}
  /\ Titled(fieldMap)
  /\ Titled(sync.fields)
  /\ Titled(local.fields)

\* an analysis that met a checkbox without a title has stored its record, which holds
\* the other field of the page
C5_Witness ==
  \E r \in 1..Len(aRuns) :
    /\ aRuns[r].success
    /\ \E k \in 1..Len(aRuns[r].log) :
         /\ aRuns[r].log[k].title = NoTitle
         /\ aRuns[r].log[k].key = <<"f","i","e","l","d","_","1">>
    /\ Len(aRuns[r].record) = 1
    /\ local = Stored(aRuns[r].record)

\* key, title text, source and confidence of every entry, in order
TitlesOf(fields) ==
  [k \in 1..Len(fields) |-> [key |-> fields[k].key, title |-> fields[k].value.title]]

\* C8: two runs of analyzePage on a page that did not change in between produce
\* field maps with the same keys and, per key, the same title text, source and
\* confidence, and the record the second run writes equals the record the first wrote.
C8_Idempotent ==
  \A i \in 1..Len(aRuns) : \A j \in 1..Len(aRuns) :
    (i < j /\ aRuns[i].version = aRuns[j].version) =>
      /\ KeysOf(aRuns[i].fields) = KeysOf(aRuns[j].fields)
      /\ TitlesOf(aRuns[i].fields) = TitlesOf(aRuns[j].fields)
      /\ aRuns[i].record = aRuns[j].record
      /\ (aRuns[j].savedToLocal /\ aPc = "idle" /\ j = Len(aRuns)) =>
           local = Stored(aRuns[i].record)

\* the same page has been analysed twice, both runs stored their record, one of its
\* fields has a key made from its position, and a fill has run in between or beside
C8_Witness ==
  /\ Len(aRuns) = 2
  /\ aRuns[1].version = aRuns[2].version
  /\ aRuns[1].success /\ aRuns[2].success
  /\ HasKey(aRuns[2].fields, <<"f","i","e","l","d","_","0">>)
  /\ \E k \in 1..Len(fLog) : fLog[k].outcome = "filled"

----------------------------------------------------------------------------
(* Properties of re-acquisition *)

\* the elements of a document with the id, the name
WithId(d, id) == {j \in 1..Len(d) : IsElement(d, j) /\ d[j].id = id}

WithName(d, name) == {j \in 1..Len(d) : IsElement(d, j) /\ d[j].name = name}

\* what the stored selectors of a call match in the document of the call
IdMatches(call) ==
  IF call.info.selectors.id = <<>> THEN {} ELSE WithId(call.doc, call.info.selectors.id)

PathMatches(call) ==
  IF call.info.selectors.cssPath = <<>> THEN {}
  ELSE MatchingPath(call.doc, call.info.selectors.cssPath)

NameMatches(call) ==
  IF call.info.selectors.name = <<>> THEN {}
  ELSE WithName(call.doc, call.info.selectors.name)

\* C7: given a stored descriptor whose id selector is populated, findFieldElement
\* returns the element with that id whenever one is in the document, whatever the
\* generated path, the name and the later strategies match.
C7_FoundById ==
  \A c \in 1..Len(fFinds) :
    IdMatches(fFinds[c]) # {} =>
      /\ fFinds[c].result.element = Min(IdMatches(fFinds[c]))
      /\ fFinds[c].result.strategy = "id"
      /\ ~fFinds[c].result.threw

\* a field has been found by its id in a document where its generated path matches
\* nothing and its name belongs to another element
C7_Witness ==
  \E c \in 1..Len(fFinds) :
    /\ IdMatches(fFinds[c]) # {}
    /\ fFinds[c].result.element # 0
    /\ PathMatches(fFinds[c]) = {}
    /\ NameMatches(fFinds[c]) # {}
    /\ fFinds[c].result.element \notin NameMatches(fFinds[c])

LaterThanPath == {"item_labelledby", "item_text", "name", "class_type", "type_text",
                  "placeholder", "none"}

LaterThanName == {"class_type", "type_text", "placeholder", "none"}

----------------------------------------------------------------------------
(* Properties of fillField *)

\* the calls of findFieldElement made for a field of a fill, in order
FindsOf(fill, field) ==
  SelectSeq(fFinds, LAMBDA call : call.fill = fill /\ call.field = field)

FoundNothing(call) == call.result.element = 0 /\ ~call.result.threw

\* C10: fillField calls findFieldElement at most twice per field; the second call is
\* made, after the delay, exactly when the first found nothing; an element that is
\* in the document at the second call is found and filled; the 'Field element not
\* found' error is raised only when both calls found nothing.
C10_RetriesOnce ==
  /\ \A c \in 1..Len(fFinds) :
       /\ fFinds[c].attempt \in {1, 2}
       /\ Len(FindsOf(fFinds[c].fill, fFinds[c].field)) <= 2
       /\ FindsOf(fFinds[c].fill, fFinds[c].field)[1].attempt = 1
       /\ fFinds[c].attempt = 2 => FoundNothing(FindsOf(fFinds[c].fill, fFinds[c].field)[1])
  /\ fPc = "delay" =>
       /\ Len(FindsOf(FillsDone + 1, fIdx)) = 1
       /\ FoundNothing(FindsOf(FillsDone + 1, fIdx)[1])
  /\ \A k \in 1..Len(fLog) :
       LET finds == FindsOf(fLog[k].fill, fLog[k].field)
           last  == finds[Len(finds)]
       IN  /\ Len(finds) = fLog[k].attempts
           /\ fLog[k].attempts = IF FoundNothing(finds[1]) THEN 2 ELSE 1
           /\ fLog[k].outcome = "not_found" =>
                Len(finds) = 2 /\ FoundNothing(finds[1]) /\ FoundNothing(finds[2])
           /\ last.result.element # 0 =>
                /\ fLog[k].outcome = "filled"
                /\ fLog[k].element = last.result.element
                /\ fLog[k].events # <<>>
           /\ IdMatches(last) # {} =>
                fLog[k].outcome = "filled" /\ fLog[k].element \in IdMatches(last)

\* a field whose element was not in the document at the first call and had appeared
\* at the second has been filled
C10_Witness ==
  \E k \in 1..Len(fLog) :
    /\ fLog[k].attempts = 2
    /\ fLog[k].outcome = "filled"
    /\ IdMatches(FindsOf(fLog[k].fill, fLog[k].field)[1]) = {}
    /\ IdMatches(FindsOf(fLog[k].fill, fLog[k].field)[2]) # {}

----------------------------------------------------------------------------
(* Properties of the fill loop *)

\* what the loop logged for the fields of a fill, in order
LogOf(fill) == SelectSeq(fLog, LAMBDA l : l.fill = fill)

LoggedKeys(fill) == [k \in 1..Len(LogOf(fill)) |-> LogOf(fill)[k].key]

FillResponses == SelectSeq(responses, LAMBDA r : r.action = "fillForm")

Failed(entry) == entry.outcome \in {"not_found", "threw"}

\* C11: every stored field is attempted, in stored order, whatever happened to the
\* fields before it: a field that is not found, or whose lookup throws, ends only its
\* own turn; fillFormsOnPage returns, and returns true exactly when at least one
\* field was filled.
C11_FaultIsolated ==
  /\ \A f \in 1..FillsDone :
       /\ LoggedKeys(f) \in {<<>>, KeysOf(sync.fields)}
       /\ \A k \in 1..Len(LogOf(f)) : LogOf(f)[k].field = k
       /\ FillResponses[f].success <=> \E k \in 1..Len(LogOf(f)) : LogOf(f)[k].outcome = "filled"
  /\ fPc \in {"suggest", "delay"} =>
       LoggedKeys(FillsDone + 1) = SubSeq(KeysOf(fFields), 1, fIdx - 1)

\* a fill has returned true after its first field failed and its second was filled
C11_Witness ==
  /\ FillsDone = 1
  /\ FillResponses[1].success
  /\ Len(LogOf(1)) = 2
  /\ Failed(LogOf(1)[1])
  /\ LogOf(1)[2].outcome = "filled"

----------------------------------------------------------------------------
(* Properties of the fill action and of the fallback suggestion *)

\* the entry the step has logged, when it logged one
Logged == fLog'[Len(fLog')]

IsCheckbox(n) == n.tag = "input" /\ n.type = "checkbox"

\* String(value)
AsText(value) == IF value.type = "boolean" THEN <<"t","r","u","e">> ELSE value.str

\* C12 as stated: every element that is filled, whatever its kind, receives input,
\* change, blur in that order, each exactly once.
C12_AsStated ==
  \A k \in 1..Len(fLog) :
    fLog[k].outcome = "filled" => fLog[k].events = <<"input", "change", "blur">>

\* C12, what the code does: the step that fills an element sets its value (text-like
\* input, textarea), its checked state (checkbox) or its selected option (select); a
\* text-like element then receives input, change, blur, each once, and a checkbox
\* or select receives change, change, blur and no input.
C12_Notifications ==
  [][(Len(fLog') = Len(fLog) + 1 /\ Logged.outcome = "filled") =>
       LET before == dom[Logged.element]
           after  == dom'[Logged.element]
       IN  CASE before.tag = "select" ->
                  /\ after.value = IF AsText(Logged.value) \in before.options
                                   THEN AsText(Logged.value) ELSE <<>>
                  /\ Logged.events = <<"change", "change", "blur">>
             [] IsCheckbox(before) ->
                  /\ after.checked = (Logged.value.type = "boolean" /\ Logged.value.bool)
                  /\ after.value = before.value
                  /\ Logged.events = <<"change", "change", "blur">>
             [] OTHER ->
                  /\ after.value = AsText(Logged.value)
                  /\ after.checked = before.checked
                  /\ Logged.events = <<"input", "change", "blur">>]_vars

\* a checkbox has been checked and a change event dispatched on it twice
C12_Witness ==
  \E k \in 1..Len(fLog) :
    /\ fLog[k].outcome = "filled"
    /\ fLog[k].events = <<"change", "change", "blur">>
    /\ fLog[k].element \in 1..Len(dom)
    /\ IsCheckbox(dom[fLog[k].element])
    /\ dom[fLog[k].element].checked

\* the descriptor the loop read for a logged field
DescriptorOf(entry) == FindsOf(entry.fill, entry.field)[1].info

TypedValue(type) ==
  CASE type = "number" -> <<"4","2">>
    [] type = "email"  -> <<"u","s","e","r","@","e","x","a","m","p","l","e",".","c","o","m">>
    [] type = "tel"    -> <<"+","1","-","5","5","5","-","0","1","2","3">>
    [] type = "url"    -> <<"h","t","t","p","s",":","/","/","e","x","a","m","p","l","e",".","c","o","m">>
    [] type = "date"   -> <<"2","0","2","5","-","0","7","-","2","6">>
    [] OTHER           -> <<>>

TypedFallback(entry) ==
  /\ entry.source = "fallback"
  /\ DescriptorOf(entry).type = "checkbox" =>
       entry.value.type = "boolean" /\ entry.value.bool
  /\ DescriptorOf(entry).type \in {"number", "email", "tel", "url", "date"} =>
       entry.value.type = "string" /\ entry.value.str = TypedValue(DescriptorOf(entry).type)

Untyped(entry) ==
  DescriptorOf(entry).type \notin {"checkbox", "number", "email", "tel", "url", "date"}

\* C13 as stated: the fallback suggestion is the value keyed by the field's type, and
\* for every other type "Sample " followed by the field's resolved title text.
C13_AsStated ==
  \A k \in 1..Len(fLog) :
    fLog[k].source = "fallback" =>
      /\ TypedFallback(fLog[k])
      /\ Untyped(fLog[k]) =>
           fLog[k].value.str = <<"S","a","m","p","l","e"," ">> \o DescriptorOf(fLog[k]).title.text

\* C13, amended: the same, the title text being lower-cased in the value of the other
\* types: the title "Email Address" gives "Sample email address".
C13_Fallback ==
  \A k \in 1..Len(fLog) :
    fLog[k].source = "fallback" =>
      /\ TypedFallback(fLog[k])
      /\ Untyped(fLog[k]) =>
           /\ fLog[k].value.type = "string"
           /\ fLog[k].value.str =
                <<"S","a","m","p","l","e"," ">> \o ToLowerCase(DescriptorOf(fLog[k]).title.text)
           /\ DescriptorOf(fLog[k]).title.text = T_EmailAddress =>
                fLog[k].value.str = <<"S","a","m","p","l","e"," ","e","m","a","i","l"," ",
                                      "a","d","d","r","e","s","s">>

\* a select whose title is "Email Address" has been given the fallback suggestion
C13_Witness ==
  \E k \in 1..Len(fLog) :
    /\ fLog[k].source = "fallback"
    /\ DescriptorOf(fLog[k]).type = "select-one"
    /\ DescriptorOf(fLog[k]).title.text = T_EmailAddress
    /\ fLog[k].value.str = <<"S","a","m","p","l","e"," ","e","m","a","i","l"," ",
                             "a","d","d","r","e","s","s">>

----------------------------------------------------------------------------
(* Properties of the storage writes of analyzePage *)

\* the runs of analyzePage that reached the storage writes
Persisting == {r \in 1..Len(aRuns) : Len(aRuns[r].record) > 0}

AnalysisResponses == SelectSeq(responses, LAMBDA r : r.action = "readPage")

\* C14 as stated: an analysis whose sync write failed still returns true, and an
\* analysis that reached the writes returns false only when the write to the sync
\* area and the write to the local area both failed.
C14_AsStated ==
  \A r \in Persisting :
    /\ (aRuns[r].triedSync /\ ~aRuns[r].savedToSync /\ aRuns[r].savedToLocal) => aRuns[r].success
    /\ ~aRuns[r].success =>
         /\ aRuns[r].triedSync /\ ~aRuns[r].savedToSync
         /\ ~aRuns[r].savedToLocal

\* C14, amended: the write to the sync area is attempted only for a record under the
\* size limit; the analysis returns true exactly when one of the writes succeeded,
\* so it returns false when the local write failed and the sync write either failed
\* or was not attempted; every run ends by answering the caller with that value.
C14_Persistence ==
  /\ Len(AnalysisResponses) = Len(aRuns)
  /\ \A r \in 1..Len(aRuns) : AnalysisResponses[r].success = aRuns[r].success
  /\ \A r \in Persisting :
       /\ aRuns[r].savedToSync => aRuns[r].triedSync
       /\ aRuns[r].success <=> (aRuns[r].savedToSync \/ aRuns[r].savedToLocal)
       /\ (aRuns[r].triedSync /\ ~aRuns[r].savedToSync /\ aRuns[r].savedToLocal) =>
            aRuns[r].success
       /\ ~aRuns[r].success =>
            /\ ~aRuns[r].savedToLocal
            /\ ~aRuns[r].triedSync \/ ~aRuns[r].savedToSync
       /\ (r = Len(aRuns) /\ aPc = "idle" /\ aRuns[r].savedToLocal) =>
            local = Stored(aRuns[r].record)

\* the sync write has failed, the local write has succeeded and the analysis has
\* returned true with the record in the local area
C14_Witness ==
  /\ aPc = "idle"
  /\ Len(aRuns) > 0
  /\ Len(aRuns) \in Persisting
  /\ aRuns[Len(aRuns)].triedSync
  /\ ~aRuns[Len(aRuns)].savedToSync
  /\ aRuns[Len(aRuns)].savedToLocal
  /\ aRuns[Len(aRuns)].success
  /\ local = Stored(aRuns[Len(aRuns)].record)
  /\ sync # local

\* an analysis has stored a record, another one is in flight, and a fill is about
\* to read the storage areas
ReadsDuringAnalysis ==
  /\ aPc # "idle"
  /\ fPc \in {"getSync", "getLocal"}
  /\ \E r \in 1..Len(aRuns) : aRuns[r].success

\* C16 as stated: a fill that reads the storage areas while analyzePage is in flight
\* finds the stored record present, and never finds the sync and the local area
\* holding different records.
C16_AsStated ==
  ReadsDuringAnalysis =>
    /\ sync.present \/ local.present
    /\ (sync.present /\ local.present) => sync = local

\* C16, what the code does: each storage area holds nothing or the whole record of
\* one run of analyzePage; the two areas are cleared and written by four separate
\* calls, so between them a record can be absent or differ between the areas.
C16_WholeRecords ==
  \A area \in {sync, local} :
    \/ area = NoRecord
    \/ \E r \in 1..Len(aRuns) : area = Stored(aRuns[r].record)
    \/ aPc \in {"setSync", "setLocal"} /\ area = Stored(aRun.record)

\* a fill reads while a second analysis has cleared both areas
C16_Witness ==
  /\ ReadsDuringAnalysis
  /\ aPc = "rmLocal" \/ aPc = "setSync" \/ aPc = "setLocal"
  /\ sync = NoRecord
  /\ local = NoRecord

\* a fill reads while the second analysis has written the sync area only, the page
\* having changed since the first
C16_WitnessDiffer ==
  /\ ReadsDuringAnalysis
  /\ sync.present /\ local.present
  /\ sync # local

----------------------------------------------------------------------------
(* Properties of the exclusion policy *)

\* the element has a type that is never a field, or is hidden by its own style or
\* hidden attribute
ExcludedItself(d, e) ==
  \/ TypeProp(d[e]) \in {"hidden", "submit", "button", "reset", "image"}
  \/ d[e].display = "none"
  \/ d[e].visibility = "hidden"
  \/ d[e].hidden

UnderAriaHidden(d, e) == \E a \in 1..Len(d) : IsDescendant(d, e, a) /\ d[a].ariaHidden = "true"

\* the interactive elements inside a container
ControlsWithin(d, containers) ==
  {e \in 1..Len(d) : IsInteractive(d[e]) /\ \E c \in containers : IsDescendant(d, e, c)}

Examined(log, e) == \E k \in 1..Len(log) : log[k].element = e

FormsOf(d) == {j \in 1..Len(d) : d[j].tag = "form"}

FoundForms(d) == {FindForms(d)[k] : k \in 1..Len(FindForms(d))}

\* C17 as stated: analysis and submission capture skip an element exactly when its
\* type is hidden, submit, button, reset or image, or it is not displayed, or an
\* ancestor carries aria-hidden="true".
C17_AsStated ==
  /\ analysed =>
       \A e \in ControlsWithin(dom, FoundForms(dom)) :
         ~Examined(resolved, e) <=> (ExcludedItself(dom, e) \/ UnderAriaHidden(dom, e))
  /\ \A form \in FormsOf(dom) : \A e \in ControlsWithin(dom, {form}) :
       ~Examined(ProcessFormSubmission(dom, form).log, e)
         <=> (ExcludedItself(dom, e) \/ UnderAriaHidden(dom, e))

\* C17, amended: the same, with aria-hidden="true" carried by the element itself or
\* by an ancestor.
C17_Exclusion ==
  /\ analysed =>
       \A e \in ControlsWithin(dom, FoundForms(dom)) :
         ~Examined(resolved, e)
           <=> (ExcludedItself(dom, e) \/ UnderAriaHidden(dom, e) \/ dom[e].ariaHidden = "true")
  /\ \A form \in FormsOf(dom) : \A e \in ControlsWithin(dom, {form}) :
       ~Examined(ProcessFormSubmission(dom, form).log, e)
         <=> (ExcludedItself(dom, e) \/ UnderAriaHidden(dom, e) \/ dom[e].ariaHidden = "true")

\* a named text input that carries aria-hidden="true" itself has been skipped by the
\* analysis and by the capture of its form
C17_Witness ==
  /\ analysed
  /\ \E form \in FormsOf(dom) : \E e \in ControlsWithin(dom, {form}) :
       /\ dom[e].ariaHidden = "true"
       /\ dom[e].name = A_firstName
       /\ ~ExcludedItself(dom, e) /\ ~UnderAriaHidden(dom, e)
       /\ ~Examined(resolved, e)
       /\ TypeProp(dom[e]) = "text"
       /\ ~Examined(ProcessFormSubmission(dom, form).log, e)

----------------------------------------------------------------------------
(* Properties of the embedding requests *)

InFlight == {k \in 1..Len(eCalls) : eCalls[k].pc = "fetch"}

\* C15 as stated: in storeFormEmbeddings no two fields' embedding requests are in
\* flight at the same time.
C15_AsStated == Cardinality(InFlight) <= 1

\* C15, what the code does: storeFormEmbeddings starts the call of every captured
\* field before it awaits any of them, so the first requests of all the fields are
\* in flight together.
C15_AllStarted ==
  ePc = "embedding" =>
    /\ Len(eCalls) = Len(captured.fields)
    /\ \A k \in 1..Len(eCalls) :
         /\ eCalls[k].field = captured.fields[k].key
         /\ Len(eCalls[k].statuses) = 0 => eCalls[k].pc = "fetch"

\* the requests of two fields are in flight together
C15_Witness ==
  /\ Len(eCalls) = 2
  /\ eCalls[1].field # eCalls[2].field
  /\ InFlight = {1, 2}

\* the requests a call has sent
Requests(call) == Len(call.statuses) + (IF call.pc = "fetch" THEN 1 ELSE 0)

Backoff(call) ==
  /\ Requests(call) <= 4
  /\ call.waits = SubSeq(<<1000, 2000, 4000>>, 1, Len(call.waits))
  /\ \A i \in 1..Len(call.waits) : call.statuses[i] = "429"
  /\ \A i \in 1..Len(call.statuses) :
       (call.statuses[i] = "429" /\ i <= 3) => Len(call.waits) >= i
  /\ Requests(call) = Len(call.waits) + (IF call.pc = "wait" THEN 0 ELSE 1)
  /\ call.pc = "returned" <=> call.result # "none"
  /\ call.pc = "returned" =>
       call.result = IF call.statuses[Len(call.statuses)] = "ok" THEN "embedding" ELSE "null"

\* C18: a call of generateEmbedding sends a further request only after a 429, after
\* waiting 1000, 2000 and 4000 ms in turn; it sends at most 4 requests; it returns
\* null after a fourth 429 and after any other failure; and every call returns.
C18_Backoff ==
  /\ [](\A k \in 1..Len(eCalls) : Backoff(eCalls[k]))
  /\ (ePc = "embedding") ~> (ePc = "set")

\* a call has returned null after four 429 responses and three waits
C18_Witness ==
  \E k \in 1..Len(eCalls) :
    /\ eCalls[k].statuses = <<"429", "429", "429", "429">>
    /\ eCalls[k].waits = <<1000, 2000, 4000>>
    /\ eCalls[k].pc = "returned"
    /\ eCalls[k].result = "null"

----------------------------------------------------------------------------
(* Properties of the precedence of the title rules *)

\* the evidence each rule of the title resolution needs, read off the document
LabelledByEvidence(d, e) == NonEmpty(ReferencedTexts(d, e)) # <<>>

IdEvidence(n) ==
  Len(n.id) > 3 /\ ~PrefixDigits(<<"i","n","p","u","t">>, n.id) /\ Len(Humanize(n.id)) > 3

NameEvidence(n) == NonTrivialName(n) /\ Len(Humanize(NameProp(n))) > 3

PlaceholderEvidence(n) == Len(Trim(PlaceholderProp(n))) > 3

HeadingRoles(d) == {j \in 1..Len(d) : d[j].role = "heading"}

HeadingRoleEvidence(d, e) ==
  /\ Closest(d, e, HeadingRoles(d)) # 0
  /\ HeadingText(d, Closest(d, e, HeadingRoles(d))) # <<>>

LabelEvidence(d, e) ==
  /\ ForLabels(d, e) \cup EnclosingLabels(d, e) # {}
  /\ Trim(TextContent(d, LabelOf(d, e))) # <<>>

AriaEvidence(n) == n.ariaLabel # <<>> \/ n.title # <<>>

NearbyTexts(d, e) == TextsOf(d, GetNearbyDescriptiveElements(d, e))

ClueEvidence(d, e) ==
  \/ GetPrecedingTextNode(d, e) # <<>>
  \/ NearbyTexts(d, e) # <<>>
  \/ FindTooltipText(d, e) # <<>>

HeadingEvidence(d, e) == FindNearbyHeadings(d, e) # <<>>

\* the position in the stated order of the first rule among the applicable ones
\* (10: no rule)
Earliest(applicable) ==
  IF applicable = {} THEN 10 ELSE CHOOSE r \in applicable : \A q \in applicable : r <= q

\* the rules whose evidence the document holds
Evidenced(d, e) ==
  {r \in 1..9 :
     CASE r = 1 -> LabelledByEvidence(d, e)
       [] r = 2 -> NameEvidence(d[e])
       [] r = 3 -> IdEvidence(d[e])
       [] r = 4 -> PlaceholderEvidence(d[e])
       [] r = 5 -> HeadingRoleEvidence(d, e)
       [] r = 6 -> LabelEvidence(d, e)
       [] r = 7 -> AriaEvidence(d[e])
       [] r = 8 -> ClueEvidence(d, e)
       [] r = 9 -> HeadingEvidence(d, e)}

\* the rule a title came from
RuleOf(title) ==
  CASE title.source = "aria_labelledby" -> 1
    [] title.source = "name_attribute"  -> 2
    [] title.source = "id_attribute"    -> 3
    [] title.source = "placeholder"     -> 4
    [] title.source = "heading_role"    -> 5
    [] title.source = "explicit_label"  -> 6
    [] title.source = "aria_label"      -> 7
    [] title.source \in {"preceding_text", "nearby_element", "tooltip"} -> 8
    [] title.source = "nearby_heading"  -> 9
    [] OTHER -> 10

\* the confidence the stated order gives a title
StatedConfidence(title) ==
  CASE title.source = "aria_labelledby" -> 100
    [] title.source = "name_attribute"  -> 80
    [] title.source = "id_attribute"    -> 70
    [] title.source = "placeholder"     -> 75
    [] title.source = "heading_role"    -> 95
    [] title.source = "explicit_label"  -> 90
    [] title.source = "aria_label"      -> 85
    [] title.source = "preceding_text"  -> 80
    [] title.source \in {"nearby_element", "tooltip"} -> 70
    [] title.source = "nearby_heading"  -> 60
    [] OTHER -> 0

OnlyClues(d, e) == Evidenced(d, e) \cap (1..7) = {}

\* C20 as stated: when no higher rule applies, the title is the preceding text (0.8),
\* otherwise the first nearby element's text, otherwise the tooltip (0.7 each).
C20_AsStated ==
  \A k \in 1..Len(resolved) :
    LET e == resolved[k].element
    IN  (OnlyClues(dom, e) /\ ClueEvidence(dom, e)) =>
          resolved[k].title =
            IF GetPrecedingTextNode(dom, e) # <<>>
            THEN Title(GetPrecedingTextNode(dom, e), "preceding_text", 80)
            ELSE IF NearbyTexts(dom, e) # <<>>
                 THEN Title(NearbyTexts(dom, e)[1], "nearby_element", 70)
                 ELSE Title(FindTooltipText(dom, e), "tooltip", 70)

\* C20, amended: when no higher rule applies, the title is the preceding text (0.8),
\* otherwise the tooltip text, otherwise the first nearby element's text (0.7 each):
\* a tooltip wins over a nearby element.
C20_ClueOrder ==
  \A k \in 1..Len(resolved) :
    LET e == resolved[k].element
    IN  (OnlyClues(dom, e) /\ ClueEvidence(dom, e)) =>
          /\ resolved[k].title =
               IF GetPrecedingTextNode(dom, e) # <<>>
               THEN Title(GetPrecedingTextNode(dom, e), "preceding_text", 80)
               ELSE IF FindTooltipText(dom, e) # <<>>
                    THEN Title(FindTooltipText(dom, e), "tooltip", 70)
                    ELSE Title(NearbyTexts(dom, e)[1], "nearby_element", 70)
          /\ (GetPrecedingTextNode(dom, e) = <<>> /\ dom[e].dataTooltip = T_Hint) =>
               resolved[k].title = Title(T_Hint, "tooltip", 70)

\* a field with a data-tooltip and a help text beside it, and no preceding text, has
\* been titled by the tooltip
C20_Witness ==
  \E k \in 1..Len(resolved) :
    LET e == resolved[k].element
    IN  /\ OnlyClues(dom, e)
        /\ GetPrecedingTextNode(dom, e) = <<>>
        /\ dom[e].dataTooltip = T_Hint
        /\ NearbyTexts(dom, e) = <<T_Help>>
        /\ resolved[k].title = Title(T_Hint, "tooltip", 70)

----------------------------------------------------------------------------
(* Properties of the clue list *)

\* the context clues analysis gathered for an element it looked at
CluesOf(e) == ExtractFieldInfo(dom, e).contextualInfo.contextClues

TypesOf(clues) == {clues[k].type : k \in 1..Len(clues)}

LabelClues == {"aria_labelledby", "explicit_label", "heading_role"}

\* C21 as stated: at most one of the aria_labelledby, explicit_label and
\* heading_role clues is among the context clues of a field.
C21_AsStated ==
  \A k \in 1..Len(resolved) :
    Cardinality(TypesOf(CluesOf(resolved[k].element)) \cap LabelClues) <= 1

\* C21, amended: the explicit_label clue is recorded exactly when the field has a
\* label element and no aria_labelledby clue; the heading_role clue exactly when the
\* field lies in a role=heading element with text and has neither an
\* aria_labelledby clue nor a label with non-blank text. A label with blank text
\* gives an explicit_label clue with empty text, next to which a heading_role clue
\* can stand.
C21_LabelClues ==
  \A k \in 1..Len(resolved) :
    LET e == resolved[k].element
        types == TypesOf(CluesOf(e))
    IN  /\ Cardinality(types \cap LabelClues) <= 1 \/ "aria_labelledby" \notin types
        /\ "aria_labelledby" \in types <=> LabelledByEvidence(dom, e)
        /\ "explicit_label" \in types <=>
             (~LabelledByEvidence(dom, e) /\ ForLabels(dom, e) \cup EnclosingLabels(dom, e) # {})
        /\ "heading_role" \in types <=>
             (~LabelledByEvidence(dom, e) /\ ~LabelEvidence(dom, e) /\ HeadingRoleEvidence(dom, e))
        /\ {"explicit_label", "heading_role"} \subseteq types =>
             \E c \in 1..Len(CluesOf(e)) : CluesOf(e)[c] = Clue("explicit_label", <<>>)

\* a field with a blank label[for] inside a role=heading element has been analysed:
\* it has an explicit_label clue with empty text and a heading_role clue
C21_Witness ==
  \E k \in 1..Len(resolved) :
    /\ {"explicit_label", "heading_role"} \subseteq TypesOf(CluesOf(resolved[k].element))
    /\ ForLabels(dom, resolved[k].element) # {}
    /\ resolved[k].title = Title(T_Topic, "heading_role", 95)

----------------------------------------------------------------------------
(* The text of a title *)

\* C27 as stated: every title findMeaningfulTitle returns has non-empty text.
C27_AsStated ==
  /\ \A k \in 1..Len(resolved) :
       resolved[k].title # NoTitle => resolved[k].title.text # <<>>
  /\ \A j \in 1..Len(fieldMap) : fieldMap[j].value.title.text # <<>>

\* C27, what the code does: a title from any rule but the last has non-empty text;
\* when only the nearby-heading rule applies, the title is the trimmed text of the
\* first nearby heading whatever it is, so a heading without text gives a title
\* with empty text, and the field is kept in the field map under that title.
C27_TitleText ==
  /\ \A k \in 1..Len(resolved) :
       LET e == resolved[k].element
           t == resolved[k].title
       IN  /\ (t # NoTitle /\ t.source # "nearby_heading") => t.text # <<>>
           /\ Evidenced(dom, e) = {9} =>
                t = Title(Head(TextsOf(dom, FindNearbyHeadings(dom, e))), "nearby_heading", 60)
           /\ (t # NoTitle /\ t.text = <<>>) =>
                /\ Evidenced(dom, e) = {9}
                /\ Trim(dom[Head(FindNearbyHeadings(dom, e))].text) = <<>>
  /\ \A j \in 1..Len(fieldMap) :
       fieldMap[j].value.title.text = <<>> =>
         fieldMap[j].value.title = Title(<<>>, "nearby_heading", 60)

\* a field whose only context is a heading without text has been given a title with
\* empty text and stands in the field map
C27_Witness ==
  /\ \E k \in 1..Len(resolved) : resolved[k].title = Title(<<>>, "nearby_heading", 60)
  /\ \E j \in 1..Len(fieldMap) : fieldMap[j].value.title = Title(<<>>, "nearby_heading", 60)

----------------------------------------------------------------------------
(* The entries of the field map and the elements they stand for *)

\* the entries of a field map made from an element
EntriesFor(fields, e) == {j \in 1..Len(fields) : fields[j].value.element = e}

\* the containers findForms returns that hold an element
ContainersOf(d, e) ==
  {f \in 1..Len(FindForms(d)) : IsDescendant(d, e, FindForms(d)[f])}

Anonymous(n) == n.id = <<>> /\ NameProp(n) = <<>>

IsTitled(log, e) == \E k \in 1..Len(log) : log[k].element = e /\ log[k].title # NoTitle

\* some element of the page has an id of the form field_<digits>
PositionalIds(d) == \E j \in 1..Len(d) : PrefixDigits(FieldPrefix, d[j].id)

\* C25 as stated: after analyzeFormFields has processed all containers, no element is
\* represented by more than one entry of the field map.
C25_AsStated ==
  analysed => \A e \in 1..Len(dom) : Cardinality(EntriesFor(fieldMap, e)) <= 1

\* C25, what the code does: an element with an id or a name has at most one entry,
\* because each visit writes the same key; an element with neither, which has a
\* title, gets at every visit the key field_<number of entries so far>, so it has
\* one entry per container that holds it, under different positional keys (on a
\* page where no id has the form of a positional key).
C25_Entries ==
  analysed =>
    \A e \in 1..Len(dom) :
      /\ ~Anonymous(dom[e]) => Cardinality(EntriesFor(fieldMap, e)) <= 1
      /\ (Anonymous(dom[e]) /\ IsTitled(resolved, e) /\ ~PositionalIds(dom)) =>
           Cardinality(EntriesFor(fieldMap, e)) = Cardinality(ContainersOf(dom, e))
      /\ \A i \in EntriesFor(fieldMap, e) : \A j \in EntriesFor(fieldMap, e) :
           i < j => /\ fieldMap[i].key = FieldPrefix \o Decimal(i - 1)
                    /\ fieldMap[j].key = FieldPrefix \o Decimal(j - 1)
                    /\ fieldMap[i].value.title = fieldMap[j].value.title

\* an input without id and name, labelled by the label around it, in a form inside
\* a div that is a container too, has been analysed: it stands in the field map as
\* field_0 and as field_1
C25_Witness ==
  /\ analysed
  /\ \E e \in 1..Len(dom) :
       /\ Anonymous(dom[e])
       /\ Cardinality(ContainersOf(dom, e)) = 2
       /\ Len(fieldMap) = 2
       /\ EntriesFor(fieldMap, e) = {1, 2}
       /\ fieldMap[1].key = FieldPrefix \o <<"0">>
       /\ fieldMap[2].key = FieldPrefix \o <<"1">>

----------------------------------------------------------------------------
(* The keys of the field map *)

\* the titled elements of an analysis, by position in its log
TitledAt(log) == {k \in 1..Len(log) : log[k].title # NoTitle}

TitledElements(log) == {log[k].element : k \in TitledAt(log)}

\* the last titled element that was given a key
LastWith(log, key) ==
  log[CHOOSE k \in TitledAt(log) :
        /\ log[k].key = key
        /\ \A q \in TitledAt(log) : log[q].key = key => q <= k].element

\* C26 as stated: two distinct titled elements never receive the same key, and the
\* number of entries of the field map equals the number of distinct titled elements.
C26_AsStated ==
  analysed =>
    /\ \A i \in TitledAt(resolved) : \A j \in TitledAt(resolved) :
         resolved[i].element # resolved[j].element => resolved[i].key # resolved[j].key
    /\ Len(fieldMap) = Cardinality(TitledElements(resolved))

\* C26, what the code does: the key is the id, else the name, else field_<number of
\* entries so far>, and fields[key] = ... replaces an entry that has the key. The
\* field map has one entry per key given to a titled element, and the entry is the
\* one of the last element that was given the key: of two elements sharing a name,
\* or an element whose id is the positional key of another one, only the later is
\* in the map.
C26_LastWins ==
  analysed =>
    /\ \A i \in 1..Len(fieldMap) : \A j \in 1..Len(fieldMap) :
         i # j => fieldMap[i].key # fieldMap[j].key
    /\ {fieldMap[j].key : j \in 1..Len(fieldMap)} = {resolved[k].key : k \in TitledAt(resolved)}
    /\ \A j \in 1..Len(fieldMap) :
         /\ fieldMap[j].value.element = LastWith(resolved, fieldMap[j].key)
         /\ fieldMap[j].value.selectors = Selectors(dom, fieldMap[j].value.element)

\* two inputs named firstName in one form have been analysed: both have a title and
\* the key firstName, and the only entry of the field map is the second one's
C26_Witness ==
  /\ analysed
  /\ Len(fieldMap) = 1
  /\ \E i \in TitledAt(resolved) : \E j \in TitledAt(resolved) :
       /\ i < j
       /\ resolved[i].element # resolved[j].element
       /\ resolved[i].key = A_firstName /\ resolved[j].key = A_firstName
       /\ fieldMap[1].key = A_firstName
       /\ fieldMap[1].value.element = resolved[j].element

\* an input without id and name, keyed field_0, followed by an input whose id is
\* field_0: the second one has replaced the first in the field map
C26_WitnessPositional ==
  /\ analysed
  /\ Len(fieldMap) = 1
  /\ \E i \in TitledAt(resolved) : \E j \in TitledAt(resolved) :
       /\ i < j
       /\ Anonymous(dom[resolved[i].element])
       /\ dom[resolved[j].element].id = A_field_0
       /\ fieldMap[1].key = A_field_0
       /\ fieldMap[1].value.element = resolved[j].element

----------------------------------------------------------------------------
(* The placeholder strategy of findFieldElement *)

\* the placeholder the element of a call's field had when the page was analysed
AnalysedPlaceholder(call) == fieldMap[call.field].value.info.placeholder

\* the elements of the document of a call that have this placeholder
PlaceholderMatches(call) ==
  IF AnalysedPlaceholder(call) = <<>> THEN {}
  ELSE {j \in 1..Len(call.doc) : call.doc[j].placeholder = AnalysedPlaceholder(call)}

\* no strategy before the placeholder strategy found an element or threw
HigherFoundNothing(call) ==
  ~call.result.threw /\ call.result.strategy \in {"placeholder", "none"}

\* C22 as stated: for a field that was analysed and stored and is filled from storage,
\* when every higher strategy finds nothing, findFieldElement returns the element
\* that has the placeholder the field had at analysis time.
C22_AsStated ==
  \A c \in 1..Len(fFinds) :
    (HigherFoundNothing(fFinds[c]) /\ PlaceholderMatches(fFinds[c]) # {}) =>
      /\ fFinds[c].result.strategy = "placeholder"
      /\ fFinds[c].result.element = Min(PlaceholderMatches(fFinds[c]))

\* C22, what the code does: the descriptor analyzePage stores has no placeholder, so
\* for a field filled from storage the placeholder strategy is never tried: no call
\* answers through it, and when the higher strategies find nothing the call finds
\* nothing, also when an element with the analysed placeholder is in the document.
C22_PlaceholderLost ==
  /\ \A k \in 1..Len(sync.fields) : "placeholder" \notin DOMAIN sync.fields[k].value
  /\ \A k \in 1..Len(local.fields) : "placeholder" \notin DOMAIN local.fields[k].value
  /\ \A c \in 1..Len(fFinds) :
       /\ "placeholder" \notin DOMAIN fFinds[c].info
       /\ fFinds[c].result.strategy # "placeholder"
       /\ HigherFoundNothing(fFinds[c]) => fFinds[c].result.element = 0

\* a field analysed with a placeholder is looked for, from its stored descriptor, in
\* a document where an element has that placeholder and the id, path, name and class
\* strategies match nothing: the call finds nothing
C22_Witness ==
  \E c \in 1..Len(fFinds) :
    /\ PlaceholderMatches(fFinds[c]) # {}
    /\ HigherFoundNothing(fFinds[c])
    /\ fFinds[c].result.element = 0
    /\ PathMatches(fFinds[c]) = {}

----------------------------------------------------------------------------
(* getIntelligentSuggestion *)

\* no suggestion is available in a reply
Unavailable(reply) == reply.lastError \/ ~reply.success \/ reply.suggestions = <<>>

AllReplies == Replies \cup ChunkReplies

\* the suggestions a stored descriptor can get, over the replies
SuggestionsFor(fieldInfo) == {GetIntelligentSuggestion(fieldInfo, r) : r \in AllReplies}

FirstHundred(text) == [i \in 1..Min({Len(text), 100}) |-> text[i]]

IsValue(v) == v = JsTrue \/ (v.type = "string" /\ v.str # <<>>)

\* C23: for every stored field and every reply to searchKnowledge,
\* getIntelligentSuggestion yields a value; when the message failed with a runtime
\* error, the response has success = false or the list of suggestions is empty, it is
\* the fallback suggestion for the field's type, with source fallback and confidence
\* 0.3; otherwise it is made from the first suggestion of the list, whatever the
\* similarity of the later ones. The field of a fill got one of these suggestions.
C23_Suggestion ==
  /\ \A k \in 1..Len(fFields) : \A r \in AllReplies :
       LET s == GetIntelligentSuggestion(fFields[k].value, r)
       IN  /\ IsValue(s.value)
           /\ Unavailable(r) =>
                /\ s = GenerateFallbackSuggestion(fFields[k].value)
                /\ s.source = "fallback" /\ s.confidence = 30
           /\ ~Unavailable(r) =>
                /\ s.value.str \in {r.suggestions[1].extractedValue,
                                    FirstHundred(r.suggestions[1].content)}
                /\ r.suggestions[1].extractedValue # <<>> =>
                     s.value.str = r.suggestions[1].extractedValue
                /\ s.source \in {r.suggestions[1].source, "knowledge_base"}
                /\ s.source # "fallback"
  /\ \A k \in 1..Len(fLog) :
       \E s \in SuggestionsFor(DescriptorOf(fLog[k])) :
         fLog[k].value = s.value /\ fLog[k].source = s.source
  /\ fPc = "delay" => fSuggestion \in SuggestionsFor(fFields[fIdx].value)

\* a number field has been filled with the first hundred characters of the chunk
\* that stood first in the list, before a chunk of greater similarity
C23_Witness ==
  \E j \in 1..Len(fLog) :
    /\ DescriptorOf(fLog[j]).type = "number"
    /\ fLog[j].source = "knowledge_base"
    /\ fLog[j].value = JsString(FirstHundred(V_Content))
    /\ Len(fLog[j].value.str) = 100
    /\ fLog[j].outcome = "filled"

\* a field has been given the fallback suggestion after a reply without suggestions
C23_WitnessFallback ==
  \E j \in 1..Len(fLog) :
    /\ fLog[j].source = "fallback"
    /\ fLog[j].value = GenerateFallbackSuggestion(DescriptorOf(fLog[j])).value
    /\ fLog[j].outcome = "filled"

----------------------------------------------------------------------------
(* The record a fill reads after an analysis *)

LastRun == aRuns[Len(aRuns)]

\* fillFormsOnPage gets its formFields from a storage area, no analysis being in
\* flight and the last analysis having returned true
ReadsAfterAnalysis ==
  /\ fPc \in {"getSync", "getLocal"}
  /\ fPc' = "suggest"
  /\ aPc = "idle" /\ aPc' = "idle"
  /\ Len(aRuns) > 0
  /\ LastRun.success

\* C28 as stated: a fill that follows an analysis which returned true fills from the
\* field map that analysis wrote, whatever the storage operations of the analysis did.
C28_AsStated == [][ReadsAfterAnalysis => fFields' = LastRun.record]_vars

\* C28, what the code does: the fill takes the record of the sync area if there is
\* one, else the one of the local area. It is the record of the last analysis when
\* that analysis wrote the area the fill reads; an analysis that returned true
\* without writing the sync area (record too large, or the write failed) and
\* without having cleared it leaves the record of an earlier analysis there, and the
\* fill takes that one.
C28_Cache ==
  [][ReadsAfterAnalysis =>
       /\ (fPc = "getSync" /\ LastRun.savedToSync) => fFields' = LastRun.record
       /\ (fPc = "getLocal" /\ LastRun.savedToLocal) => fFields' = LastRun.record
       /\ fPc = "getSync" => fFields' = sync.fields
       /\ fPc = "getLocal" => fFields' = local.fields
       /\ \E r \in 1..Len(aRuns) : aRuns[r].record # <<>> /\ fFields' = aRuns[r].record]_vars

\* the second analysis, of a page that had changed, did not clear the sync area and
\* did not write it, wrote the local area and returned true; the fill has taken the
\* first analysis' record from the sync area
C28_Witness ==
  /\ Len(aRuns) = 2
  /\ aPc = "idle"
  /\ aRuns[2].success /\ aRuns[2].savedToLocal /\ ~aRuns[2].savedToSync
  /\ aRuns[1].record # aRuns[2].record
  /\ sync = Stored(aRuns[1].record)
  /\ local = Stored(aRuns[2].record)
  /\ fPc = "suggest" /\ fIdx = 1 /\ fLog = <<>>
  /\ fFields = aRuns[1].record

----------------------------------------------------------------------------
(* C29: one run of processFormSubmission for one submission *)

\* the runs of processFormSubmission that a gesture caused
RunsOf(g) == SelectSeq(procRuns, LAMBDA r : r.gesture = g)

\* the formSubmitted messages that a gesture caused
MessagesOf(g) == SelectSeq(procRuns, LAMBDA r : r.gesture = g /\ r.sent)

TimersFor(g) == SelectSeq(timers, LAMBDA t : t.gesture = g)

\* the clicks on the submit button of a form, made while the page is monitored
SubmitClicks == {g \in 1..Len(gestures) : gestures[g].monitored /\ gestures[g].submits}

\* the submissions of a form in which processFormSubmission finds a field
Capturing == {g \in SubmitClicks : \E k \in 1..Len(procRuns) :
                                     procRuns[k].gesture = g /\ procRuns[k].fields # <<>>}

\* C29 as stated: with monitoring active, one click on a submit button inside a form
\* (with a field to capture) makes processFormSubmission run once and one
\* formSubmitted message be sent.
C29_AsStated ==
  \A g \in Capturing : Len(RunsOf(g)) = 1 /\ Len(MessagesOf(g)) = 1

\* C29: the listeners are registered once, however often monitorFormSubmissions is
\* called; a click on a submit button inside a form runs processFormSubmission once
\* from the submit listener, and once more from the click listener's timer unless the
\* page is left before the timer fires; each run sends its own formSubmitted message.
\* Clicks made before monitoring, and clicks on other elements, cause no run.
C29_Runs ==
  /\ listeners = (IF isMonitoringSubmissions THEN 1 ELSE 0)
  /\ isMonitoringSubmissions <=> monitorCalls > 0
  /\ \A g \in SubmitClicks :
       /\ Len(SelectSeq(RunsOf(g), LAMBDA r : r.trigger = "submit")) = 1
       /\ Len(SelectSeq(RunsOf(g), LAMBDA r : r.trigger = "click")) + Len(TimersFor(g))
            = (IF unloaded THEN Len(RunsOf(g)) - 1 ELSE 1)
       /\ Len(RunsOf(g)) \in {1, 2}
       /\ Len(MessagesOf(g)) = (IF g \in Capturing THEN Len(RunsOf(g)) ELSE 0)
       /\ \A k \in 1..Len(RunsOf(g)) : /\ RunsOf(g)[k].form = RunsOf(g)[1].form
                                        /\ RunsOf(g)[k].fields = RunsOf(g)[1].fields
  /\ \A g \in (1..Len(gestures)) \ SubmitClicks : RunsOf(g) = <<>> /\ TimersFor(g) = <<>>

\* one click on the submit button of a monitored form, after monitorFormSubmissions
\* was called twice: processFormSubmission ran twice and two messages were sent
C29_Witness ==
  /\ monitorCalls = MaxMonitorCalls
  /\ listeners = 1
  /\ ~unloaded
  /\ \E g \in Capturing :
       /\ Len(RunsOf(g)) = 2
       /\ Len(MessagesOf(g)) = 2
       /\ RunsOf(g)[1].trigger = "submit"
       /\ RunsOf(g)[2].trigger = "click"

----------------------------------------------------------------------------
(* C24: the acknowledgment of the messages *)

\* the channels of an action
ChannelsOf(action) == {c \in 1..Len(channels) : channels[c].action = action}

\* C24 as stated: every message is answered by one sendResponse call, at the latest
\* when the promise started for it has settled, if its channel was kept open or its
\* sender passed a callback; no message is answered twice.
C24_AsStated ==
  \A c \in 1..Len(channels) :
    /\ channels[c].sent <= 1
    /\ (~channels[c].pending /\ (channels[c].open \/ channels[c].callback))
         => channels[c].sent = 1

\* C24: ping is answered at once; readPage and fillForm, uploadFile and searchKnowledge
\* are answered once when their promise settles; requestFormPrediction is answered
\* once if its handler's promise resolves and never if it rejects; any other action
\* of the content listener keeps the channel open and is never answered;
\* formSubmitted and apiKeyUpdated close the channel without an answer.
C24_Protocol ==
  /\ \A c \in ChannelsOf("ping") : channels[c].open /\ channels[c].sent = 1
  /\ \A c \in ChannelsOf("readPage") \cup ChannelsOf("fillForm")
            \cup ChannelsOf("uploadFile") \cup ChannelsOf("searchKnowledge") :
       /\ channels[c].open
       /\ channels[c].sent = (IF channels[c].pending THEN 0 ELSE 1)
  /\ \A c \in ChannelsOf("requestFormPrediction") :
       /\ channels[c].open
       /\ channels[c].sent \in {0, 1}
       /\ channels[c].pending => channels[c].sent = 0
  /\ \A c \in ChannelsOf("other") :
       channels[c].open /\ ~channels[c].pending /\ channels[c].sent = 0
  /\ \A c \in ChannelsOf("formSubmitted") \cup ChannelsOf("apiKeyUpdated") :
       ~channels[c].open /\ ~channels[c].pending /\ channels[c].sent = 0
  /\ Len(SelectSeq(channels, LAMBDA ch : ch.to = "content" /\ ch.sent = 1
                                          /\ ch.action # "ping")) = Len(responses)

\* a formSubmitted message sent with a callback whose handler has finished, and another
\* action whose channel the content listener keeps open: neither is answered
C24_Witness ==
  /\ \E c \in ChannelsOf("formSubmitted") :
       /\ channels[c].callback /\ ~channels[c].open /\ channels[c].sent = 0
       /\ \E h \in 1..Len(handlers) : handlers[h].channel = c /\ handlers[h].pc = "done"
  /\ \E c \in ChannelsOf("other") :
       channels[c].open /\ ~channels[c].pending /\ channels[c].sent = 0

----------------------------------------------------------------------------
(* C30: the services of a running handler *)

\* the reads of a service variable by the handlers that found null
NullUses ==
  {u \in {<<h, k>> : h \in 1..Len(handlers), k \in 1..2} :
     /\ u[2] <= Len(handlers[u[1]].uses)
     /\ handlers[u[1]].uses[u[2]].value = 0}

\* C30 as stated: no handler that has completed initializeServices reads a null
\* service variable.
C30_AsStated == NullUses = {}

\* a step that creates the services creates them with the value of API_KEY
CreatedWithKey ==
  (embeddingService = 0 /\ embeddingService' # 0)
    => (embeddingService' = API_KEY' /\ API_KEY' # 0)

\* a step of handleApiKeyUpdate that finds another key leaves the services null
ResetOnChange ==
  (\E h \in 1..Len(handlers) : h <= Len(handlers') /\ handlers'[h].reset /\ ~handlers[h].reset)
    => (embeddingService' = 0 /\ API_KEY' = storedKey)

\* C30: the service a handler calls right after initializeServices is non-null; the
\* geminiService it reads after the awaited call is null only if handleApiKeyUpdate
\* has reset the services in between; the three services are null together, a
\* service that is created is created with the value of API_KEY, and a key update
\* that finds another key leaves the three services null.
C30_Services ==
  /\ [](/\ \A u \in NullUses :
             /\ u[2] = 2
             /\ handlers[u[1]].uses[2].service = "geminiService"
             /\ \E h \in 1..Len(handlers) :
                  handlers[h].name = "handleApiKeyUpdate" /\ handlers[h].reset
        /\ (embeddingService = 0) = (geminiService = 0)
        /\ (embeddingService = 0) = (fileService = 0)
        /\ embeddingService = geminiService /\ embeddingService = fileService)
  /\ [][CreatedWithKey /\ ResetOnChange]_vars

\* a knowledge search that got its fileService, then found geminiService null after
\* a key update, and was answered all the same
C30_Witness ==
  \E u \in NullUses :
    /\ handlers[u[1]].name = "handleKnowledgeSearch"
    /\ handlers[u[1]].uses[1].value # 0
    /\ handlers[u[1]].uses[2].service = "geminiService"
    /\ handlers[u[1]].pc = "done"
    /\ channels[handlers[u[1]].channel].sent = 1
    /\ API_KEY # handlers[u[1]].uses[1].value
====
